---- MODULE Spec2Model ----
\* Model of the XPlugin installer (packages/x-components/src/plugins/x-plugin.ts):
\* the static singleton, the pending-module queue, install, per-module
\* registration, the global config, and the bus and wires it drives.
EXTENDS Integers, Sequences, FiniteSets, TLC

\* ------------------------------------------------------------------ bounds
MaxThrows == 1        \* registrations that throw part-way
MaxEmits == 2         \* emissions on the bus / values pushed on a subject
MaxSubs == 2          \* subscriptions made by external listeners or test wires
MaxChain == 4         \* emissions followed along one chain of watcher callbacks

\* ------------------------------------------------------------------ values
None == "none"                        \* undefined
Plugins == {"p1", "p2"}               \* the XPlugin objects of the process
ModuleNames == {"searchBox", "nextQueries"}
AllModuleNames == ModuleNames \cup {"facets", "url", "recommendations", "empathize"}
Adapters == {"adapterA", "adapterB"}
UserStore == "userStore"              \* a store passed in options.store
StoreNames == <<"store1", "store2", "store3", "store4", "store5", "store6">>
Vue == "Vue"

\* The bus handed to each constructor (x-plugin.ts:163-165).
PluginBus(p) == IF p = "p1" THEN "bus1" ELSE "bus2"
Buses == {PluginBus(p) : p \in Plugins}

\* ------------------------------------------------------------------ config objects
\* A config object is the map from its leaf key paths to their values; an absent
\* object (undefined) and the empty object have no leaves.
EmptyObject == [path \in {} |-> None]
ConfigPaths == {<<"consent">>, <<"currencyOptions", "symbol">>,
                <<"currencyOptions", "format", "decimals">>}
ConfigValues == {"v1", "v2"}
DEFAULT_X_CONFIG == [path \in ConfigPaths |-> "v0"]
\* DeepPartial<XConfig>: any subset of the leaves of XConfig, with new values.
PartialConfigs == UNION {[paths -> ConfigValues] : paths \in SUBSET ConfigPaths}

IsPrefix(s, t) == Len(s) <= Len(t) /\ SubSeq(t, 1, Len(s)) = s

\* deepMerge(target, source): every leaf of source is written into target; an
\* object in source merges into the object under the same key, and replaces a
\* value that is not an object; the other leaves of target stay.
deepMerge(target, source) ==
  LET kept == {t \in DOMAIN target :
                 \A s \in DOMAIN source : ~IsPrefix(s, t) /\ ~IsPrefix(t, s)}
  IN [path \in kept \cup DOMAIN source |->
        IF path \in DOMAIN source THEN source[path] ELSE target[path]]

\* ------------------------------------------------------------------ wires and modules
\* A wire as the factory builds it: the store method, the mutation or action
\* name, and the static payload given at construction (None: not given).
\* A name is the sequence of its segments: 'x/searchBox/setQuery' is
\* <<"x", "searchBox", "setQuery">> and the bare 'setQuery' is <<"setQuery">>.
\* kind "notCallable" is a wiring entry that is no function: invoking it throws;
\* kind "throwing" is a wire made from a function that throws on every value.
Payloads == {"pizza", "sushi"}
RawValue(p) == [wrapped |-> FALSE, eventPayload |-> p, metadata |-> None]
WithMetadata(p, md) == [wrapped |-> TRUE, eventPayload |-> p, metadata |-> md]

Wire(id, kind, name, static) == [id |-> id, kind |-> kind, name |-> name, static |-> static]

\* A store module is the map from its leaf key paths to their values, like a
\* config object: state leaves hold state values, the leaves under getters,
\* mutations and actions name the function stored there; "{}" is an empty object.
searchBoxXStoreModule ==
  (<<"state", "query">> :> "") @@ (<<"state", "config", "debounceInMs">> :> "v0")
  @@ (<<"mutations", "setQuery">> :> "setQuery")
  @@ (<<"mutations", "clearQuery">> :> "clearQuery")
  @@ (<<"mutations", "setConfig">> :> "setSearchBoxConfig")
  @@ (<<"actions", "search">> :> "search")

\* next-queries/store/types.ts: state with a config, no setConfig mutation.
nextQueriesXStoreModule ==
  (<<"state", "query">> :> "") @@ (<<"state", "config", "maxItemsToRequest">> :> "v0")
  @@ (<<"getters", "request">> :> "request")
  @@ (<<"mutations", "setQuery">> :> "setQuery")
  @@ (<<"actions", "getNextQueries">> :> "getNextQueries")

\* urlXStoreModule: state with a config, mutations without setConfig.
urlXStoreModule ==
  (<<"state", "config", "urlParamNames">> :> "{}") @@ (<<"state", "query">> :> "")
  @@ (<<"getters", "urlParams">> :> "urlParams")
  @@ (<<"mutations", "setUrlConfig">> :> "setUrlConfig")

\* facetsXStoreModule: no config in its state.
facetsXStoreModule ==
  (<<"state", "query">> :> "") @@ (<<"getters", "selectedFilters">> :> "selectedFilters")
  @@ (<<"mutations", "setQuery">> :> "setQuery")

\* A store module with a config in its state and no mutations at all.
recommendationsXStoreModule ==
  (<<"state", "config", "maxItemsToRequest">> :> "v0")
  @@ (<<"getters", "request">> :> "request")

\* A store module whose mutation changes the state on every call.
empathizeXStoreModule ==
  (<<"state", "isOpen">> :> "false") @@ (<<"mutations", "toggle">> :> "toggle")

XStoreModules ==
  [name \in AllModuleNames |->
     CASE name = "searchBox" -> searchBoxXStoreModule
       [] name = "nextQueries" -> nextQueriesXStoreModule
       [] name = "url" -> urlXStoreModule
       [] name = "facets" -> facetsXStoreModule
       [] name = "recommendations" -> recommendationsXStoreModule
       [] name = "empathize" -> empathizeXStoreModule]

\* A store emitter in its options form { selector, immediate, isDifferent,
\* ...options }: the selector is the path it reads, in the module state or in
\* the getters; None is a key the emitter does not declare. A bare selector
\* function is the options form with the selector alone.
StoreEmitter(event, selector, immediate, isDifferent, filter) ==
  [event |-> event, selector |-> selector, immediate |-> immediate,
   isDifferent |-> isDifferent, filter |-> filter]

XModule(name, ver, wiring, storeEmitters) ==
  [name |-> name, ver |-> ver, wiring |-> wiring, storeEmitters |-> storeEmitters,
   storeModule |-> IF name \in AllModuleNames THEN XStoreModules[name] ELSE EmptyObject]

searchBoxXModule ==
  XModule("searchBox", 1,
    << [event |-> "UserAcceptedAQuery",
        wires |-> << Wire("setSearchBoxQuery", "commit", <<"x", "searchBox", "setQuery">>, None),
                     Wire("search", "dispatch", <<"x", "searchBox", "search">>, None) >>] >>,
    << StoreEmitter("SearchBoxQueryChanged", <<"state", "query">>, FALSE, None, None) >>)

searchBoxXModule2 ==
  XModule("searchBox", 2,
    << [event |-> "UserAcceptedAQuery",
        wires |-> << Wire("setSearchBoxQuery", "commit",
                          <<"x", "searchBox", "setQuery">>, "pizza") >>],
       [event |-> "UserClearedQuery",
        wires |-> << Wire("clearQuery", "commitWithoutPayload",
                          <<"x", "searchBox", "clearQuery">>, None) >>] >>,
    << StoreEmitter("SearchBoxQueryChanged", <<"state", "query">>, FALSE, "isNewQuery", None) >>)

nextQueriesXModule ==
  XModule("nextQueries", 1,
    << [event |-> "UserAcceptedAQuery",
        wires |-> << Wire("setNextQueriesQuery", "commit",
                          <<"x", "nextQueries", "setQuery">>, None) >>] >>,
    << StoreEmitter("NextQueriesChanged", <<"state", "query">>, TRUE, None, None) >>)

\* A module whose wiring holds an entry that is not a function.
nextQueriesXModule2 ==
  XModule("nextQueries", 2,
    << [event |-> "UserAcceptedAQuery",
        wires |-> << Wire("setNextQueriesQuery", "commit", <<"x", "nextQueries", "setQuery">>, None),
                     Wire("broken", "notCallable", <<>>, None) >>] >>,
    << StoreEmitter("NextQueriesChanged", <<"state", "query">>, TRUE, None, None) >>)

XModules == {searchBoxXModule, searchBoxXModule2, nextQueriesXModule, nextQueriesXModule2}

\* facetsEmitters: both emitters declare their predicate under the key filter.
facetsXModule ==
  XModule("facets", 1,
    << [event |-> "UserAcceptedAQuery",
        wires |-> << Wire("setFacetsQuery", "commit",
                          <<"x", "facets", "setQuery">>, "pizza") >>],
       [event |-> "UserClearedQuery",
        wires |-> << Wire("clearFacetsQuery", "commitWithoutPayload",
                          <<"x", "facets", "setQuery">>, None) >>] >>,
    << StoreEmitter("SelectedFiltersChanged", <<"getters", "selectedFilters">>, FALSE,
                    None, "areFiltersDifferent"),
       StoreEmitter("FacetsQueryChanged", <<"state", "query">>, FALSE, None, "isNewQuery") >>)

\* A module whose wiring holds a wire whose effect throws.
urlXModule ==
  XModule("url", 1,
    << [event |-> "UserAcceptedAQuery",
        wires |-> << Wire("logQuery", "throwing", <<>>, None),
                     Wire("setUrlConfig", "commit", <<"x", "url", "setUrlConfig">>, None) >>] >>,
    << StoreEmitter("UrlStateChanged", <<"getters", "urlParams">>, FALSE, None, None) >>)

recommendationsXModule ==
  XModule("recommendations", 1, <<>>,
    << StoreEmitter("RecommendationsRequestChanged", <<"getters", "request">>, TRUE,
                    None, None) >>)

\* A module with a wire bound to the event of its own store emitter: the
\* emitter reports the change the wire makes.
empathizeXModule ==
  XModule("empathize", 1,
    << [event |-> "UserClearedQuery",
        wires |-> << Wire("toggleOnClear", "commitWithoutPayload",
                          <<"x", "empathize", "toggle">>, None) >>],
       [event |-> "EmpathizeOpenChanged",
        wires |-> << Wire("toggleOnChange", "commitWithoutPayload",
                          <<"x", "empathize", "toggle">>, None) >>] >>,
    << StoreEmitter("EmpathizeOpenChanged", <<"state", "isOpen">>, FALSE, None, None) >>)

\* ------------------------------------------------------------------ install options
\* XPluginOptions: adapter (required), store and config (optional).
\* options.xModules[name]: the overrides of a module's wiring, store module and
\* store emitters; an empty one is an override that is not given. An emitter
\* override names the keys it defines.
XModuleOptions(wiring, storeModule, storeEmitters) ==
  [wiring |-> wiring, storeModule |-> storeModule, storeEmitters |-> storeEmitters]
NoXModuleOptions == XModuleOptions(<<>>, EmptyObject, <<>>)
NoXModulesOptions == [name \in AllModuleNames |-> NoXModuleOptions]
EmitterOptions(keys, emitter) == [event |-> emitter.event, keys |-> keys, value |-> emitter]

InstallOptionsWith(a, s, c, x) == [adapter |-> a, store |-> s, config |-> c, xModules |-> x]
InstallOptions(a, s, c) == InstallOptionsWith(a, s, c, NoXModulesOptions)
XPluginOptions ==
  { InstallOptions(None, None, EmptyObject),           \* no adapter
    InstallOptions("adapterA", None, EmptyObject),
    InstallOptions("adapterB", UserStore, [path \in {<<"consent">>} |-> "v1"]) }
NoOptions == InstallOptions(None, None, EmptyObject)

\* ------------------------------------------------------------------ state
VARIABLES
  instance,            \* XPlugin.instance (static): a plugin object or None
  pendingXModules,     \* XPlugin.pendingXModules (static), in key insertion order
  isInstalled,         \* per plugin object
  adapter,
  options,
  vue,
  xConfig,             \* [ref, val]: the config object's identity and its content
  store,
  installedXModules,
  stores,              \* per store: registered module paths, watchers, and the
                       \* modules under state.x with their live state
  subscribers,         \* per bus or subject: its subscriptions, in subscription order
  adapterListeners,    \* per adapter: the config-changed listeners registered on it
  microtasks,          \* deferred callbacks not yet run
  vueGlobal,           \* what the global Vue has been given
  storeCalls,          \* commit and dispatch calls made on stores, in order
  emitted,             \* per bus or subject: everything emitted on it, in order
  received,            \* per external listener: the values delivered to it, in order
  errors,              \* errors thrown by wire effects and left uncaught, in order
  regLog,              \* per plugin object: the registration steps it has performed
  installs,            \* install calls that passed option validation
  throws,              \* registrations that threw part-way
  lastCall             \* the API call that made the last step, and how it ended

vars == <<instance, pendingXModules, isInstalled, adapter, options, vue, xConfig, store,
          installedXModules, stores, subscribers, adapterListeners, microtasks, vueGlobal,
          storeCalls, emitted, received, errors, regLog, installs, throws, lastCall>>

StoreIds == {UserStore} \cup {StoreNames[i] : i \in DOMAIN StoreNames}
Subject == "subject"
Streams == Buses \cup {Subject}
Listeners == {"listener1", "listener2"}
NoWire == Wire(None, None, <<>>, None)
NoModule == XModule(None, 0, <<>>, <<>>)
UndefinedConfig == [ref |-> 0, val |-> EmptyObject]
EmptyStore ==
  [modules |-> <<>>, watchers |-> <<>>, x |-> [name \in AllModuleNames |-> EmptyObject]]
Call(op, self, o, m, err) ==
  [op |-> op, self |-> self, options |-> o, xModule |-> m, err |-> err]

\* The state a call works on, and the error it ends with (None: it returned).
World ==
  [instance |-> instance, pendingXModules |-> pendingXModules, isInstalled |-> isInstalled,
   adapter |-> adapter, options |-> options, vue |-> vue, xConfig |-> xConfig,
   store |-> store, installedXModules |-> installedXModules, stores |-> stores,
   subscribers |-> subscribers, adapterListeners |-> adapterListeners,
   microtasks |-> microtasks, vueGlobal |-> vueGlobal, regLog |-> regLog,
   installs |-> installs, err |-> None]

Commit(w) ==
  /\ instance' = w.instance
  /\ pendingXModules' = w.pendingXModules
  /\ isInstalled' = w.isInstalled
  /\ adapter' = w.adapter
  /\ options' = w.options
  /\ vue' = w.vue
  /\ xConfig' = w.xConfig
  /\ store' = w.store
  /\ installedXModules' = w.installedXModules
  /\ stores' = w.stores
  /\ subscribers' = w.subscribers
  /\ adapterListeners' = w.adapterListeners
  /\ microtasks' = w.microtasks
  /\ vueGlobal' = w.vueGlobal
  /\ regLog' = w.regLog
  /\ installs' = w.installs
  /\ throws' = IF w.err = "wireThrew" THEN throws + 1 ELSE throws

Step(step, m, event, id) ==
  [step |-> step, name |-> m.name, ver |-> m.ver, event |-> event, id |-> id]

\* ------------------------------------------------------------------ static accessors
Throws == "throws"

getInstanceUnchecked == instance

\* x-plugin.ts:75-80
getInstance == IF instance = None THEN Throws ELSE instance

\* x-plugin.ts:41-43, 54-56, 64-66: each accessor throws when getInstance does.
Read(value, undefined) ==
  [threw |-> getInstance = Throws, value |-> IF getInstance = Throws THEN undefined ELSE value]
StaticAdapter == Read(IF instance = None THEN None ELSE adapter[instance], None)
StaticBus == Read(IF instance = None THEN None ELSE PluginBus(instance), None)
StaticConfig ==
  Read(IF instance = None THEN UndefinedConfig ELSE xConfig[instance], UndefinedConfig)

\* ------------------------------------------------------------------ wires
\* A wire that always passes on the observed value.
WireEffectObserved(wire, s, value, by) ==
  [store |-> s,
   method |-> IF wire.kind \in {"commit", "commitWithoutPayload"} THEN "commit" ELSE "dispatch",
   name |-> wire.name,
   hasPayload |-> wire.kind \in {"commit", "dispatch"},
   payload |-> IF wire.kind \notin {"commit", "dispatch"} THEN RawValue(None) ELSE value,
   by |-> by]

\* What a wire does with a value of its stream: one call on the store.
\* wireCommit / wireDispatch pass the static payload when one was given and the
\* observed value otherwise; the WithoutPayload wires pass no payload.
WireEffect(wire, s, value, by) ==
  [store |-> s,
   method |-> IF wire.kind \in {"commit", "commitWithoutPayload"} THEN "commit" ELSE "dispatch",
   name |-> wire.name,
   hasPayload |-> wire.kind \in {"commit", "dispatch"},
   payload |-> IF wire.kind \notin {"commit", "dispatch"} THEN RawValue(None)
               ELSE IF wire.static # None THEN RawValue(wire.static)
               ELSE value,
   by |-> by]

getModulePathBare(moduleName, name) == <<name>>

\* The name a namespaced wire uses: `x/${moduleName}/${name}`.
getModulePath(moduleName, name) == <<"x", moduleName, name>>

\* withModule(moduleName).wireCommit(name, static?) and its three siblings: the
\* wire of the same kind on the namespaced name.
withModule(moduleName, kind, name, static) ==
  Wire("wire", kind, getModulePath(moduleName, name), static)

\* A subscription to the observable bus.on(event, withMetadata) or to a subject,
\* made by a wire or by a listener; since: what the stream had emitted before.
Subscription(event, withMetadata, wire, s, listener, since) ==
  [event |-> event, withMetadata |-> withMetadata, wire |-> wire, store |-> s,
   listener |-> listener, since |-> since]

\* wire(observable, store): the wire subscribes to the observable at once.
InvokeWire(subs, event, withMetadata, wire, s, since) ==
  Append(subs, Subscription(event, withMetadata, wire, s, None, since))

\* ------------------------------------------------------------------ registration
getModuleOptionsNever(w, p, name) == NoXModuleOptions

\* x-plugin.ts:350-352
getModuleOptions(w, p, name) == w.options[p].xModules[name]

Under(object, key) == [path \in {q \in DOMAIN object : Head(q) = key} |-> object[path]]
Besides(object, key) == [path \in {q \in DOMAIN object : Head(q) # key} |-> object[path]]

\* x-plugin.ts:362-369: actions, getters and mutations are merged into a new
\* object, the state options into the module's state.
customizeStoreModule(storeModule, storeModuleOptions) ==
  deepMerge(deepMerge(EmptyObject, Besides(storeModule, "state")),
            Besides(storeModuleOptions, "state"))
  @@ deepMerge(Under(storeModule, "state"), Under(storeModuleOptions, "state"))

hasModuleConfigNever(storeModule) == FALSE

\* x-plugin.ts:337-341: the state holds an object under the key config.
hasModuleConfig(storeModule) ==
  \E path \in DOMAIN storeModule : IsPrefix(<<"state", "config">>, path)

getDefaultSetConfigMutation == "defaultSetConfig"

\* x-plugin.ts:302-314
addConfigMutation(storeModule) ==
  IF hasModuleConfig(storeModule)
  THEN IF Under(storeModule, "mutations") = EmptyObject
       THEN storeModule @@ (<<"mutations", "setConfig">> :> getDefaultSetConfigMutation)
       ELSE IF <<"mutations", "setConfig">> \notin DOMAIN storeModule
       THEN storeModule @@ (<<"mutations", "setConfig">> :> getDefaultSetConfigMutation)
       ELSE storeModule
  ELSE storeModule

\* x-plugin.ts:283-291: store.registerModule(['x', name], customizedStoreModule)
\* puts the module, with the state it brings, under state.x[name].
registerStoreModule(w, p, m) ==
  LET storeModuleOptions == getModuleOptions(w, p, m.name).storeModule
      customizedStoreModule ==
        IF storeModuleOptions # EmptyObject
        THEN customizeStoreModule(m.storeModule, storeModuleOptions)
        ELSE m.storeModule
      namespaced == (<<"namespaced">> :> "true") @@ customizedStoreModule
  IN [w EXCEPT !.stores[w.store[p]].modules = Append(@, [name |-> m.name, ver |-> m.ver]),
               !.stores[w.store[p]].x[m.name] = addConfigMutation(namespaced),
               !.regLog[p] = Append(@, Step("storeModule", m, None, None))]

\* deepMerge({}, target, source) on keyed entries kept in key order: an entry of
\* source replaces or merges into the entry of target under the same key, which
\* keeps its place; the entries under new keys follow. A wire is a function
\* and is replaced.
MergeWires(wires, wiresOptions) ==
  [i \in DOMAIN wires |->
     IF \E j \in DOMAIN wiresOptions : wiresOptions[j].id = wires[i].id
     THEN wiresOptions[CHOOSE j \in DOMAIN wiresOptions : wiresOptions[j].id = wires[i].id]
     ELSE wires[i]]
  \o SelectSeq(wiresOptions, LAMBDA given : \A i \in DOMAIN wires : wires[i].id # given.id)

MergeWiring(wiring, wiringOptions) ==
  [i \in DOMAIN wiring |->
     IF \E j \in DOMAIN wiringOptions : wiringOptions[j].event = wiring[i].event
     THEN [event |-> wiring[i].event,
           wires |-> MergeWires(wiring[i].wires,
                       wiringOptions[CHOOSE j \in DOMAIN wiringOptions :
                                       wiringOptions[j].event = wiring[i].event].wires)]
     ELSE wiring[i]]
  \o SelectSeq(wiringOptions,
               LAMBDA given : \A i \in DOMAIN wiring : wiring[i].event # given.event)

\* An emitter merges with its override key by key.
MergeEmitter(emitter, emitterOptions) ==
  [key \in DOMAIN emitter |->
     IF key \in emitterOptions.keys THEN emitterOptions.value[key] ELSE emitter[key]]

MergeEmitters(storeEmitters, storeEmittersOptions) ==
  LET new == SelectSeq(storeEmittersOptions,
                       LAMBDA given : \A i \in DOMAIN storeEmitters :
                                        storeEmitters[i].event # given.event)
  IN [i \in DOMAIN storeEmitters |->
        IF \E j \in DOMAIN storeEmittersOptions :
             storeEmittersOptions[j].event = storeEmitters[i].event
        THEN MergeEmitter(storeEmitters[i],
               storeEmittersOptions[CHOOSE j \in DOMAIN storeEmittersOptions :
                                      storeEmittersOptions[j].event = storeEmitters[i].event])
        ELSE storeEmitters[i]]
     \o [i \in DOMAIN new |-> new[i].value]

\* The wires visited last to first.
FlatWiringReversed(wiring) ==
  LET pairs == UNION {{<<i, j>> : j \in DOMAIN wiring[i].wires} : i \in DOMAIN wiring}
      Before(a, b) == a[1] < b[1] \/ (a[1] = b[1] /\ a[2] < b[2])
      Rank(a) == Cardinality({b \in pairs : Before(a, b)}) + 1
  IN [n \in 1..Cardinality(pairs) |->
        LET a == CHOOSE a \in pairs : Rank(a) = n
        IN [event |-> wiring[a[1]].event, wire |-> wiring[a[1]].wires[a[2]]]]

\* The (event, wire) pairs of a wiring in the order forEach visits them.
RECURSIVE FlatWiring(_)
FlatWiring(wiring) ==
  IF wiring = <<>> THEN <<>>
  ELSE [i \in 1..Len(Head(wiring).wires) |->
          [event |-> Head(wiring).event, wire |-> Head(wiring).wires[i]]]
       \o FlatWiring(Tail(wiring))

\* x-plugin.ts:261-274: each wire is invoked with bus.on(event, true) and the
\* store; an entry that cannot be called throws and ends the registration.
RECURSIVE InvokeWires(_, _, _, _)
InvokeWires(w, p, m, pairs) ==
  IF pairs = <<>> THEN w
  ELSE LET e == Head(pairs) IN
    IF e.wire.kind = "notCallable"
    THEN [w EXCEPT !.err = "wireThrew",
                   !.regLog[p] = Append(@, Step("threw", m, e.event, e.wire.id))]
    ELSE InvokeWires(
           [w EXCEPT !.subscribers[PluginBus(p)] =
                        InvokeWire(@, e.event, TRUE, e.wire, w.store[p],
                                   Len(emitted[PluginBus(p)])),
                     !.regLog[p] = Append(@, Step("wire", m, e.event, e.wire.id))],
           p, m, Tail(pairs))

\* x-plugin.ts:262-265
customizedWiring(w, p, m) ==
  LET wiringOptions == getModuleOptions(w, p, m.name).wiring
  IN IF wiringOptions # <<>>
     THEN MergeWiring(m.wiring, wiringOptions)
     ELSE m.wiring

registerWiring(w, p, m) == InvokeWires(w, p, m, FlatWiring(customizedWiring(w, p, m)))

\* The value a selector returns for a module under state.x: a state leaf, or a
\* getter read through the safe getters proxy, which knows the getters named in
\* safeGetters only (the others read as undefined). A getter is taken to derive
\* its value from the module's query.
Leaf(object, path) == IF path \in DOMAIN object THEN object[path] ELSE None
Selected(xModule, safeGetters, selector) ==
  IF selector[1] = "state" THEN Leaf(xModule, selector)
  ELSE IF selector[2] \in safeGetters /\ selector \in DOMAIN xModule
  THEN Leaf(xModule, <<"state", "query">>)
  ELSE None

\* getGettersProxyFromModule(store.getters, name, storeModule): one property per
\* getter of storeModule.
getGettersProxyFromModule(storeModule) ==
  {path[2] : path \in DOMAIN Under(storeModule, "getters")}

\* x-plugin.ts:385-388
customizedStoreEmitters(w, p, m) ==
  LET storeEmittersOptions == getModuleOptions(w, p, m.name).storeEmitters
  IN IF storeEmittersOptions # <<>>
     THEN MergeEmitters(m.storeEmitters, storeEmittersOptions)
     ELSE m.storeEmitters

ImmediateIgnored(emitter) == FALSE

\* x-plugin.ts:395, 410
Immediate(emitter) == emitter.immediate

\* x-plugin.ts:389-416: one store.watch per emitter, which reads the selector
\* once and keeps its value, and for an immediate emitter a deferred callback
\* that emits the selector's value. The watcher keeps the destructured
\* selector and isDifferent and the getters proxy; every other key of the
\* emitter goes to store.watch as an option.
RECURSIVE WatchEmitters(_, _, _, _, _)
WatchEmitters(w, p, m, safeGettersProxy, emitters) ==
  IF emitters = <<>> THEN w
  ELSE LET e == Head(emitters)
           s == w.store[p]
           watched ==
             [w EXCEPT !.stores[s].watchers =
                          Append(@, [name |-> m.name, event |-> e.event,
                                     bus |-> PluginBus(p), selector |-> e.selector,
                                     isDifferent |-> e.isDifferent,
                                     options |-> [filter |-> e.filter],
                                     getters |-> safeGettersProxy,
                                     value |-> Selected(w.stores[s].x[m.name],
                                                        safeGettersProxy, e.selector)]),
                       !.regLog[p] = Append(@, Step("watch", m, e.event, None))]
       IN WatchEmitters(
            IF Immediate(e)
            THEN [watched EXCEPT !.microtasks =
                    Append(@, [bus |-> PluginBus(p), event |-> e.event,
                               store |-> s, name |-> m.name, selector |-> e.selector,
                               getters |-> safeGettersProxy])]
            ELSE watched,
            p, m, safeGettersProxy, Tail(emitters))

\* x-plugin.ts:380-417: the getters proxy is made from the storeModule argument,
\* which registerXModule (x-plugin.ts:248) takes from the module descriptor.
registerStoreEmitters(w, p, m) ==
  WatchEmitters(w, p, m, getGettersProxyFromModule(m.storeModule),
                customizedStoreEmitters(w, p, m))

IsRegisteredNever(w, p, name) == FALSE

\* x-plugin.ts:245
IsRegistered(w, p, name) == name \in w.installedXModules[p]

\* The registration with the name put in the installed set before the steps.
registerXModuleMarkedFirst(w, p, m) ==
  IF IsRegistered(w, p, m.name) THEN w
  ELSE LET w0 == [w EXCEPT !.installedXModules[p] = @ \cup {m.name}]
           w1 == registerStoreModule(w0, p, m)
           w2 == registerWiring(w1, p, m)
           w3 == registerStoreEmitters(w2, p, m)
       IN IF w2.err # None THEN w2
          ELSE [w3 EXCEPT !.regLog[p] = Append(@, Step("installed", m, None, None))]

\* The registration with the wiring done before the store module.
registerXModuleWiringFirst(w, p, m) ==
  IF IsRegistered(w, p, m.name) THEN w
  ELSE LET w1 == registerWiring(w, p, m)
           w2 == registerStoreModule(w1, p, m)
           w3 == registerStoreEmitters(w2, p, m)
       IN IF w1.err # None THEN w1
          ELSE [w3 EXCEPT !.installedXModules[p] = @ \cup {m.name},
                          !.regLog[p] = Append(@, Step("installed", m, None, None))]

\* x-plugin.ts:244-251
registerXModule(w, p, m) ==
  IF IsRegistered(w, p, m.name) THEN w
  ELSE LET w1 == registerStoreModule(w, p, m)
           w2 == registerWiring(w1, p, m)
           w3 == registerStoreEmitters(w2, p, m)
       IN IF w2.err # None THEN w2
          ELSE [w3 EXCEPT !.installedXModules[p] = @ \cup {m.name},
                          !.regLog[p] = Append(@, Step("installed", m, None, None))]

\* x-plugin.ts:199-201: pendingXModules[xModule.name] = xModule. A key that is
\* already there keeps its place, a new key goes last.
lazyRegisterXModule(pending, m) ==
  IF \E i \in 1..Len(pending) : pending[i].name = m.name
  THEN [i \in 1..Len(pending) |-> IF pending[i].name = m.name THEN m ELSE pending[i]]
  ELSE Append(pending, m)

UndrainedQueue == pendingXModules

\* x-plugin.ts:460
DrainedQueue == <<>>

\* x-plugin.ts:456-461
RECURSIVE RegisterEach(_, _, _)
RegisterEach(w, p, queue) ==
  IF queue = <<>> \/ w.err # None THEN w
  ELSE RegisterEach(registerXModule(w, p, Head(queue)), p, Tail(queue))

\* The queue emptied whether or not a registration threw.
registerPendingXModulesDraining(w, p) ==
  [RegisterEach(w, p, w.pendingXModules) EXCEPT !.pendingXModules = DrainedQueue]

registerPendingXModules(w, p) ==
  LET w1 == RegisterEach(w, p, w.pendingXModules)
  IN IF w1.err # None THEN w1 ELSE [w1 EXCEPT !.pendingXModules = DrainedQueue]

\* ------------------------------------------------------------------ install
\* assertXPluginOptionsAreValid(options): the options must bring an adapter.
OptionsAreValid(o) == o.adapter # None

\* Adapters that expose addConfigChangedListener.
AdaptersWithHook == {"adapterB"}

createAdapterConfigChangedListenerTwice(w, p, a) ==
  IF a \in AdaptersWithHook
  THEN [w EXCEPT !.adapterListeners[a] = Append(Append(@, PluginBus(p)), PluginBus(p))]
  ELSE w

\* x-plugin.ts:481-485
createAdapterConfigChangedListener(w, p, a) ==
  IF a \in AdaptersWithHook
  THEN [w EXCEPT !.adapterListeners[a] = Append(@, PluginBus(p))]
  ELSE w

\* x-plugin.ts:468-472: the config is a new object, made reactive.
registerConfig(w, p) ==
  LET config == deepMerge(deepMerge(EmptyObject, DEFAULT_X_CONFIG), w.options[p].config)
      w1 == createAdapterConfigChangedListener(w, p, w.options[p].adapter)
  IN [w1 EXCEPT !.xConfig[p] = [ref |-> w.installs, val |-> config]]

\* x-plugin.ts:427-439
registerStore(w, p) ==
  LET given == w.options[p].store
      s == IF given # None THEN given ELSE StoreNames[w.installs]
  IN [w EXCEPT !.vueGlobal.vuex = TRUE,
               !.store[p] = s,
               !.vueGlobal.store = IF given = None THEN s ELSE @,
               !.stores[s].modules = Append(@, [name |-> "x", ver |-> 0])]

\* x-plugin.ts:446-448
applyMixins(w, p) ==
  [w EXCEPT !.vueGlobal.mixins =
     Append(@, [bus |-> PluginBus(p), config |-> w.xConfig[p].ref])]

\* x-plugin.ts:506-510
registerFilters(w, p) == [w EXCEPT !.vueGlobal.filters = TRUE]

AlreadyInstalledNever(w, p) == FALSE

\* x-plugin.ts:212-214
AlreadyInstalled(w, p) == w.isInstalled[p]

SetInstanceForgotten(w, p, v, o) ==
  [w EXCEPT !.vue[p] = v, !.options[p] = o, !.adapter[p] = o.adapter, !.installs = @ + 1]

\* x-plugin.ts:216-219
SetInstance(w, p, v, o) ==
  [w EXCEPT !.instance = p, !.vue[p] = v, !.options[p] = o, !.adapter[p] = o.adapter,
            !.installs = @ + 1]

\* install with the instance published before the options are validated.
installBeforeValidation(w, p, v, o) ==
  IF AlreadyInstalled(w, p) THEN [w EXCEPT !.err = "alreadyInstalled"]
  ELSE IF ~OptionsAreValid(o) THEN [w EXCEPT !.instance = p, !.err = "invalidOptions"]
  ELSE LET w1 == registerStore(registerConfig(SetInstance(w, p, v, o), p), p)
           w2 == registerPendingXModules(registerFilters(applyMixins(w1, p), p), p)
       IN IF w2.err # None THEN w2 ELSE [w2 EXCEPT !.isInstalled[p] = TRUE]

\* x-plugin.ts:211-226
install(w, p, v, o) ==
  IF AlreadyInstalled(w, p) THEN [w EXCEPT !.err = "alreadyInstalled"]
  ELSE IF ~OptionsAreValid(o) THEN [w EXCEPT !.err = "invalidOptions"]
  ELSE LET w1 == SetInstance(w, p, v, o)
           w2 == registerConfig(w1, p)
           w3 == registerStore(w2, p)
           w4 == applyMixins(w3, p)
           w5 == registerFilters(w4, p)
           w6 == registerPendingXModules(w5, p)
       IN IF w6.err # None THEN w6 ELSE [w6 EXCEPT !.isInstalled[p] = TRUE]

HasInstalledInstance(w) == w.instance # None /\ w.isInstalled[w.instance]

\* x-plugin.ts:174
HasInstance(w) == w.instance # None

\* x-plugin.ts:173-179
staticRegisterXModule(w, m) ==
  IF HasInstance(w)
  THEN registerXModule(w, w.instance, m)
  ELSE [w EXCEPT !.pendingXModules = lazyRegisterXModule(@, m)]

\* A reset that also marks the plugin objects as not installed.
resetInstanceAndInstalled(w) ==
  [w EXCEPT !.instance = None, !.isInstalled = [p \in Plugins |-> FALSE]]

\* x-plugin.ts:188-190
resetInstance(w) == [w EXCEPT !.instance = None]

\* ------------------------------------------------------------------ the installer's calls
Init ==
  /\ instance = None
  /\ pendingXModules = <<>>
  /\ isInstalled = [p \in Plugins |-> FALSE]
  /\ adapter = [p \in Plugins |-> None]
  /\ options = [p \in Plugins |-> NoOptions]
  /\ vue = [p \in Plugins |-> None]
  /\ xConfig = [p \in Plugins |-> UndefinedConfig]
  /\ store = [p \in Plugins |-> None]
  /\ installedXModules = [p \in Plugins |-> {}]
  /\ stores = [s \in StoreIds |-> EmptyStore]
  /\ subscribers = [b \in Streams |-> <<>>]
  /\ adapterListeners = [a \in Adapters |-> <<>>]
  /\ microtasks = <<>>
  /\ vueGlobal = [vuex |-> FALSE, store |-> None, mixins |-> <<>>, filters |-> FALSE]
  /\ storeCalls = <<>>
  /\ emitted = [b \in Streams |-> <<>>]
  /\ received = [l \in Listeners |-> <<>>]
  /\ errors = <<>>
  /\ regLog = [p \in Plugins |-> <<>>]
  /\ installs = 0
  /\ throws = 0
  /\ lastCall = Call("new", None, NoOptions, NoModule, None)

Bounded(w) == w.err = "wireThrew" => throws < MaxThrows

\* Vue.use(plugin, options): plugin.install(Vue, options)
Install(p, o) ==
  LET w == install(World, p, Vue, o) IN
  /\ Bounded(w)
  /\ Commit(w)
  /\ lastCall' = Call("install", p, o, NoModule, w.err)
  /\ UNCHANGED <<storeCalls, emitted, received, errors>>

\* XPlugin.registerXModule(xModule)
RegisterXModule(m) ==
  LET w == staticRegisterXModule(World, m) IN
  /\ Bounded(w)
  /\ Commit(w)
  /\ lastCall' = Call("registerXModule", instance, NoOptions, m, w.err)
  /\ UNCHANGED <<storeCalls, emitted, received, errors>>

\* XPlugin.resetInstance()
ResetInstance ==
  /\ Commit(resetInstance(World))
  /\ lastCall' = Call("resetInstance", None, NoOptions, NoModule, None)
  /\ UNCHANGED <<storeCalls, emitted, received, errors>>

\* The exported plugin object (x-plugin.ts:537) and its calls.
xPlugin == "p1"

Next ==
  \/ \E o \in XPluginOptions : Install(xPlugin, o)
  \/ \E m \in XModules : RegisterXModule(m)
  \/ ResetInstance

Spec == Init /\ [][Next]_vars

\* Several plugin objects installed in one process.
NextPlugins ==
  \/ \E p \in Plugins, o \in XPluginOptions : Install(p, o)
  \/ \E m \in {searchBoxXModule, nextQueriesXModule2} : RegisterXModule(m)
  \/ ResetInstance

SpecPlugins == Init /\ [][NextPlugins]_vars

\* ------------------------------------------------------------------ the global config
setConfigReplaces(w, p, config) == [w EXCEPT !.xConfig[p].val = config]

\* x-plugin.ts:234-236: the update is merged into the live config object.
setConfig(w, p, config) == [w EXCEPT !.xConfig[p].val = deepMerge(@, config)]

\* Vue.use(xPlugin, { adapter, config })
InstallWithConfig(config) ==
  Install(xPlugin, InstallOptions("adapterA", None, config))

\* xPlugin.setConfig(config) on the installed plugin
SetConfig(config) ==
  /\ isInstalled[xPlugin]
  /\ Commit(setConfig(World, xPlugin, config))
  /\ lastCall' = Call("setConfig", xPlugin, InstallOptions(None, None, config), NoModule, None)
  /\ UNCHANGED <<storeCalls, emitted, received, errors>>

NextConfig ==
  \/ \E config \in PartialConfigs : InstallWithConfig(config)
  \/ \E config \in PartialConfigs : SetConfig(config)

SpecConfig == Init /\ [][NextConfig]_vars

\* ------------------------------------------------------------------ the bus
\* The value a subscription gets for an emission: the payload, or the payload
\* paired with the metadata when it was made with bus.on(event, true).
DeliveredIgnoringMetadata(sub, payload, metadata) == RawValue(payload)

Delivered(sub, payload, metadata) ==
  IF sub.withMetadata THEN WithMetadata(payload, metadata) ELSE RawValue(payload)

\* What a state leaf holds after a mutation stored the payload of a call: the
\* payload itself, undefined when the call brought none, and "object" for a
\* payload that is an { eventPayload, metadata } object.
StateValue(call) ==
  IF ~call.hasPayload THEN None
  ELSE IF call.payload.wrapped THEN "object"
  ELSE call.payload.eventPayload

\* A mutation of a registered module applied to the module under state.x.
Mutate(xModule, mutation, value) ==
  CASE mutation = "setQuery" -> (<<"state", "query">> :> value) @@ xModule
    [] mutation = "clearQuery" -> (<<"state", "query">> :> "") @@ xModule
    [] mutation = "toggle" ->
         (<<"state", "isOpen">> :>
            IF Leaf(xModule, <<"state", "isOpen">>) = "true" THEN "false" ELSE "true")
         @@ xModule
    [] mutation = "setUrlConfig" ->
         (<<"state", "config">> :> value) @@ [path \in {q \in DOMAIN xModule :
             ~IsPrefix(<<"state", "config">>, q)} |-> xModule[path]]
    [] OTHER -> xModule

\* store.commit('x/<module>/<mutation>', payload) runs the mutation of that name
\* when the module has it; a dispatch changes no state by itself.
ApplyCall(sts, call) ==
  IF /\ call.store \in DOMAIN sts /\ call.method = "commit"
     /\ Len(call.name) = 3 /\ call.name[1] = "x" /\ call.name[2] \in AllModuleNames
  THEN LET xModule == sts[call.store].x[call.name[2]]
           path == <<"mutations", call.name[3]>>
       IN IF path \in DOMAIN xModule
          THEN [sts EXCEPT ![call.store].x[call.name[2]] =
                  Mutate(xModule, xModule[path], StateValue(call))]
          ELSE sts
  ELSE sts

AbortAfterError(subs, i) == Len(subs) + 1

\* The subscription served after the effect of subs[i] threw: the next one.
ResumeAfterError(subs, i) == i + 1

\* One emission handed to the subscriptions subs[i], subs[i+1], ... in order:
\* a listener receives the value, a wire makes its call on the store, which
\* runs the mutation; an effect that throws is reported and the others go on.
RECURSIVE Deliver(_, _, _, _, _, _)
Deliver(acc, subs, i, event, payload, metadata) ==
  IF i > Len(subs) THEN acc
  ELSE LET sub == subs[i]
           value == Delivered(sub, payload, metadata)
           call == WireEffect(sub.wire, sub.store, value, i)
       IN IF sub.event # event THEN Deliver(acc, subs, i + 1, event, payload, metadata)
          ELSE IF sub.listener # None
          THEN Deliver([acc EXCEPT !.received[sub.listener] = Append(@, value)],
                       subs, i + 1, event, payload, metadata)
          ELSE IF sub.wire.kind = "throwing"
          THEN Deliver([acc EXCEPT !.errors = Append(@, [event |-> event, by |-> i])],
                       subs, ResumeAfterError(subs, i), event, payload, metadata)
          ELSE Deliver([acc EXCEPT !.storeCalls = Append(@, call),
                                   !.stores = ApplyCall(@, call)],
                       subs, i + 1, event, payload, metadata)

\* An emission made while the stores are sts.
emitWith(sts, stream, event, payload, metadata) ==
  LET acc == Deliver([received |-> received, storeCalls |-> storeCalls,
                      errors |-> errors, stores |-> sts],
                     subscribers[stream], 1, event, payload, metadata)
  IN /\ emitted' = [emitted EXCEPT ![stream] =
                      Append(@, [event |-> event, payload |-> payload, metadata |-> metadata])]
     /\ received' = acc.received
     /\ storeCalls' = acc.storeCalls
     /\ errors' = acc.errors
     /\ stores' = acc.stores

\* emit(event, payload, metadata) on a bus, or next(payload) on a subject:
\* synchronous delivery to the current subscriptions.
emit(stream, event, payload, metadata) == emitWith(stores, stream, event, payload, metadata)

UNCHANGED_plugin ==
  UNCHANGED <<instance, pendingXModules, isInstalled, adapter, options, vue, xConfig, store,
              installedXModules, adapterListeners, microtasks, vueGlobal, regLog,
              installs, throws>>

BusEvents == {"UserAcceptedAQuery", "UserClearedQuery"}
BusPayloads == {None, "pizza"}
BusMetadata == {None, "searchBox"}

\* bus.on(event, withMetadata).subscribe(listener)
Subscribe(bus, l, event, withMetadata) ==
  /\ \A i \in DOMAIN subscribers[bus] : subscribers[bus][i].listener # l
  /\ subscribers' = [subscribers EXCEPT ![bus] =
       Append(@, Subscription(event, withMetadata, NoWire, None, l, Len(emitted[bus])))]
  /\ lastCall' = Call("on", event, NoOptions, NoModule, None)
  /\ UNCHANGED <<storeCalls, emitted, received, errors, stores>>
  /\ UNCHANGED_plugin

\* bus.emit(event, payload, metadata)
Emit(bus, event, payload, metadata) ==
  /\ Len(emitted[bus]) < MaxEmits
  /\ emit(bus, event, payload, metadata)
  /\ lastCall' = Call("emit", event, NoOptions, NoModule, None)
  /\ UNCHANGED subscribers
  /\ UNCHANGED_plugin

NextBus ==
  \/ \E l \in Listeners, e \in BusEvents, md \in BOOLEAN : Subscribe(PluginBus(xPlugin), l, e, md)
  \/ \E e \in BusEvents, p \in BusPayloads, md \in BusMetadata :
       Emit(PluginBus(xPlugin), e, p, md)

SpecBus == Init /\ [][NextBus]_vars

\* ------------------------------------------------------------------ the adapter's config
AdapterConfigs == {"adapterConfig1", "adapterConfig2"}

\* x-plugin.ts:482-484: each listener registered on the adapter emits
\* AdapterConfigChanged with the new config on the bus of its plugin.
RECURSIVE NotifyListeners(_, _, _)
NotifyListeners(acc, listeners, newAdapterConfig) ==
  IF listeners = <<>> THEN acc
  ELSE LET bus == Head(listeners)
           delivered == Deliver(acc, subscribers[bus], 1, "AdapterConfigChanged",
                                newAdapterConfig, None)
       IN NotifyListeners(
            [delivered EXCEPT !.emitted[bus] =
               Append(@, [event |-> "AdapterConfigChanged", payload |-> newAdapterConfig,
                          metadata |-> None])],
            Tail(listeners), newAdapterConfig)

\* The adapter's config changes: the adapter calls its listeners.
AdapterConfigChanged(a, newAdapterConfig) ==
  /\ \A bus \in Buses : Len(emitted[bus]) < MaxEmits
  /\ LET acc == NotifyListeners([received |-> received, storeCalls |-> storeCalls,
                                 errors |-> errors, stores |-> stores, emitted |-> emitted],
                                adapterListeners[a], newAdapterConfig)
     IN /\ emitted' = acc.emitted
        /\ received' = acc.received
        /\ storeCalls' = acc.storeCalls
        /\ errors' = acc.errors
        /\ stores' = acc.stores
  /\ lastCall' = Call("adapterConfigChanged", newAdapterConfig,
                      InstallOptions(a, None, EmptyObject), NoModule, None)
  /\ UNCHANGED subscribers
  /\ UNCHANGED_plugin

NextAdapter ==
  \/ \E o \in XPluginOptions : Install(xPlugin, o)
  \/ \E m \in {nextQueriesXModule, nextQueriesXModule2} : RegisterXModule(m)
  \/ ResetInstance
  \/ \E a \in Adapters, c \in AdapterConfigs : AdapterConfigChanged(a, c)

SpecAdapter == Init /\ [][NextAdapter]_vars

\* ------------------------------------------------------------------ wires on a subject
MockStore == "mockStore"
TestWires ==
  {Wire("wire", kind, name, static) :
     kind \in {"commit", "dispatch"}, name \in {<<"setQuery">>}, static \in {None, "sushi"}}
  \cup {Wire("wire", kind, <<"setQuery">>, None) :
          kind \in {"commitWithoutPayload", "dispatchWithoutPayload"}}

\* const wire = wireCommit(...); wire(subject, store)
InvokeTestWire(wire) ==
  /\ Len(subscribers[Subject]) < MaxSubs
  /\ subscribers' = [subscribers EXCEPT ![Subject] =
       InvokeWire(@, "next", FALSE, wire, MockStore, Len(emitted[Subject]))]
  /\ lastCall' = Call("wire", wire.kind, NoOptions, NoModule, None)
  /\ UNCHANGED <<storeCalls, emitted, received, errors, stores>>
  /\ UNCHANGED_plugin

\* subject.next(payload)
SubjectNext(payload) ==
  /\ Len(emitted[Subject]) < MaxEmits
  /\ emit(Subject, "next", payload, None)
  /\ lastCall' = Call("next", payload, NoOptions, NoModule, None)
  /\ UNCHANGED subscribers
  /\ UNCHANGED_plugin

NextWire ==
  \/ \E wire \in TestWires : InvokeTestWire(wire)
  \/ \E payload \in Payloads : SubjectNext(payload)

SpecWire == Init /\ [][NextWire]_vars

\* The wires of withModule(moduleName) on a subject.
NamespacedTestWires ==
  {withModule(moduleName, kind, "setQuery", None) :
     moduleName \in ModuleNames,
     kind \in {"commit", "dispatch", "commitWithoutPayload", "dispatchWithoutPayload"}}
  \cup {withModule("searchBox", "commit", "setQuery", "sushi"),
        withModule("nextQueries", "dispatch", "setQuery", "sushi")}

NextNamespace ==
  \/ \E wire \in NamespacedTestWires : InvokeTestWire(wire)
  \/ \E payload \in Payloads : SubjectNext(payload)

SpecNamespace == Init /\ [][NextNamespace]_vars

\* ------------------------------------------------------------------ the event flow
\* The predicates emitters declare: isNewQuery holds for a query that is not
\* empty, areFiltersDifferent for a value that differs from the old one.
Holds(predicate, newValue, oldValue) ==
  CASE predicate = "isNewQuery" -> newValue \notin {"", None}
    [] predicate = "areFiltersDifferent" -> newValue # oldValue
    [] OTHER -> TRUE

\* x-plugin.ts:396, 403: isDifferent = () => true unless the emitter has the key.
isDifferent(watcher, newValue, oldValue) == Holds(watcher.isDifferent, newValue, oldValue)

UNCHANGED_flow ==
  UNCHANGED <<instance, pendingXModules, isInstalled, adapter, options, vue, xConfig, store,
              installedXModules, subscribers, adapterListeners, vueGlobal, regLog,
              installs, throws>>

MetadataOfImmediateAsWatch(task) == task.name

\* x-plugin.ts:412: bus.emit(event, value) has no metadata argument.
MetadataOfImmediate(task) == None

\* The selector read when the emitter was registered, on the state the module
\* brought then.
PayloadOfImmediateAtRegistration(task) ==
  Selected(XStoreModules[task.name], task.getters, task.selector)

\* x-plugin.ts:412: selector(this.store.state.x[name], safeGettersProxy) is
\* evaluated inside the callback.
PayloadOfImmediate(task) ==
  Selected(stores[task.store].x[task.name], task.getters, task.selector)

\* x-plugin.ts:410-414: the deferred callback of an immediate emitter runs and
\* emits what the selector returns then.
RunImmediate ==
  /\ microtasks # <<>>
  /\ LET task == Head(microtasks) IN
       /\ emit(task.bus, task.event, PayloadOfImmediate(task), MetadataOfImmediate(task))
       /\ lastCall' = Call("immediate", task.event, NoOptions, NoModule, None)
  /\ microtasks' = Tail(microtasks)
  /\ UNCHANGED_flow

\* A watch whose getter never returns the value it returned before.
StaleAlways(s) == DOMAIN stores[s].watchers

\* The watchers of a store whose selector no longer returns the value they hold.
Stale(s) ==
  {i \in DOMAIN stores[s].watchers :
     LET watcher == stores[s].watchers[i]
     IN Selected(stores[s].x[watcher.name], watcher.getters, watcher.selector)
          # watcher.value}

\* x-plugin.ts:400-408: store.watch reports a change (newValue, oldValue) of a
\* selector to its callback, the first stale watcher first; the callback emits
\* when isDifferent holds.
RunWatcher(s) ==
  /\ Stale(s) # {}
  /\ LET i == CHOOSE i \in Stale(s) : \A j \in Stale(s) : i <= j
         watcher == stores[s].watchers[i]
         newValue == Selected(stores[s].x[watcher.name], watcher.getters, watcher.selector)
         seen == [stores EXCEPT ![s].watchers[i].value = newValue]
     IN /\ IF isDifferent(watcher, newValue, watcher.value)
           THEN emitWith(seen, watcher.bus, watcher.event, newValue, watcher.name)
           ELSE stores' = seen /\ UNCHANGED <<storeCalls, emitted, received, errors>>
        /\ lastCall' = Call("watch", s, NoOptions, NoModule, None)
  /\ UNCHANGED microtasks
  /\ UNCHANGED_flow

FlowModules == {nextQueriesXModule, facetsXModule}
FlowOptions == InstallOptions("adapterA", None, EmptyObject)
FlowPayloads == {"sushi"}
FlowMetadata == {"searchBox"}

NextFlow ==
  \/ Install(xPlugin, FlowOptions)
  \/ \E m \in FlowModules : RegisterXModule(m)
  \/ \E e \in BusEvents, p \in FlowPayloads, md \in FlowMetadata :
       Emit(PluginBus(xPlugin), e, p, md)
  \/ RunImmediate
  \/ \E s \in StoreIds : RunWatcher(s)

SpecFlow == Init /\ [][NextFlow]_vars

\* The same flow with a wire whose effect throws.
NextErrors ==
  \/ Install(xPlugin, FlowOptions)
  \/ \E m \in {searchBoxXModule2, urlXModule} : RegisterXModule(m)
  \/ \E e \in BusEvents, p \in FlowPayloads, md \in FlowMetadata :
       Emit(PluginBus(xPlugin), e, p, md)
  \/ \E s \in StoreIds : RunWatcher(s)

SpecErrors == Init /\ [][NextErrors]_vars

\* Two modules with several wires on one event, registered in either order.
OrderModules == {searchBoxXModule, urlXModule}

NextOrder ==
  \/ Install(xPlugin, FlowOptions)
  \/ \E m \in OrderModules : RegisterXModule(m)
  \/ \E e \in BusEvents, p \in FlowPayloads, md \in FlowMetadata :
       Emit(PluginBus(xPlugin), e, p, md)

SpecOrder == Init /\ [][NextOrder]_vars

\* The deferred callbacks and the watcher callbacks are run by the event loop
\* and the reactivity tick: none of them waits forever.
FairFlow ==
  SpecFlow /\ WF_vars(RunImmediate) /\ WF_vars(\E s \in StoreIds : RunWatcher(s))

\* The flow with a wire that listens to a store emitter's event. The watcher
\* callbacks are followed for MaxChain emissions.
RunWatcherInChain(s) ==
  /\ Len(emitted[PluginBus(xPlugin)]) < MaxChain
  /\ RunWatcher(s)

CycleModules == {facetsXModule, empathizeXModule}

NextCycle ==
  \/ Install(xPlugin, FlowOptions)
  \/ \E m \in CycleModules : RegisterXModule(m)
  \/ \E e \in BusEvents, p \in FlowPayloads, md \in FlowMetadata :
       Emit(PluginBus(xPlugin), e, p, md)
  \/ \E s \in StoreIds : RunWatcherInChain(s)

SpecCycle == Init /\ [][NextCycle]_vars

\* The reactivity tick runs every watcher callback that is due.
FairCycle == SpecCycle /\ WF_vars(\E s \in StoreIds : RunWatcherInChain(s))

\* ------------------------------------------------------------------ module overrides
\* options.xModules.facets: a wire replaced under its event and id, a wire and
\* an event added; a getter and a config added to the store module; an emitter
\* made immediate and an emitter added that selects the added getter.
facetsOptions ==
  XModuleOptions(
    << [event |-> "UserAcceptedAQuery",
        wires |-> << Wire("setFacetsQuery", "dispatch", <<"x", "facets", "search">>, None),
                     Wire("trackQuery", "dispatch", <<"x", "facets", "track">>, None) >>],
       [event |-> "UserChangedFilters",
        wires |-> << Wire("setFilters", "commit", <<"x", "facets", "setFilters">>, None) >>] >>,
    (<<"getters", "selectedFiltersCount">> :> "selectedFiltersCount")
      @@ (<<"state", "config", "filtersStrategy">> :> "v1")
      @@ (<<"state", "query">> :> "pizza"),
    << EmitterOptions({"immediate"},
                      StoreEmitter("FacetsQueryChanged", <<>>, TRUE, None, None)),
       EmitterOptions({"selector"},
                      StoreEmitter("SelectedFiltersCountChanged",
                                   <<"getters", "selectedFiltersCount">>, FALSE, None, None)) >>)

\* options.xModules.url: a getter replaced and a setConfig mutation given.
urlOptions ==
  XModuleOptions(<<>>,
    (<<"getters", "urlParams">> :> "customUrlParams")
      @@ (<<"mutations", "setConfig">> :> "customSetConfig"),
    <<>>)

OverrideModules == {searchBoxXModule, facetsXModule, urlXModule, recommendationsXModule}
OverrideOptions ==
  { InstallOptions("adapterA", None, EmptyObject),
    InstallOptionsWith("adapterA", None, EmptyObject,
                       [NoXModulesOptions EXCEPT !["facets"] = facetsOptions]),
    InstallOptionsWith("adapterA", None, EmptyObject,
                       [NoXModulesOptions EXCEPT !["facets"] = facetsOptions,
                                                 !["url"] = urlOptions]) }

NextOverride ==
  \/ \E o \in OverrideOptions : Install(xPlugin, o)
  \/ \E m \in OverrideModules : RegisterXModule(m)

SpecOverride == Init /\ [][NextOverride]_vars

\* ------------------------------------------------------------------ properties
\* Everything but the record of the last call.
state == <<instance, pendingXModules, isInstalled, adapter, options, vue, xConfig, store,
           installedXModules, stores, subscribers, adapterListeners, microtasks, vueGlobal,
           storeCalls, emitted, received, errors, regLog, installs, throws>>

Count(log, step, name) ==
  Cardinality({i \in DOMAIN log : log[i].step = step /\ log[i].name = name})
CountKey(log, step, name, event, id) ==
  Cardinality({i \in DOMAIN log : /\ log[i].step = step /\ log[i].name = name
                                  /\ log[i].event = event /\ log[i].id = id})
StepKeys(log, step, name) ==
  {<<log[i].event, log[i].id>> : i \in {j \in DOMAIN log : log[j].step = step /\ log[j].name = name}}
Installed(call) == call.op = "install" /\ call.err = None

\* C1: while XPlugin.instance is unset (in particular before any install has
\* passed option validation) the static accessors adapter, bus and config throw;
\* right after a successful install(vue, options) they return options.adapter,
\* the bus given to the constructor and the defaults overridden by options.config.
C1_StaticAccessors ==
  /\ installs = 0 => instance = None
  /\ instance = None => StaticAdapter.threw /\ StaticBus.threw /\ StaticConfig.threw
  /\ Installed(lastCall) =>
       /\ ~StaticAdapter.threw /\ ~StaticBus.threw /\ ~StaticConfig.threw
       /\ StaticAdapter.value = lastCall.options.adapter
       /\ StaticBus.value = PluginBus(lastCall.self)
       /\ DOMAIN StaticConfig.value.val = ConfigPaths
       /\ \A path \in ConfigPaths :
            StaticConfig.value.val[path] =
              IF path \in DOMAIN lastCall.options.config
              THEN lastCall.options.config[path] ELSE "v0"

C1_Witness ==
  /\ Installed(lastCall)
  /\ lastCall.self = "p2"
  /\ isInstalled["p1"]
  /\ StaticAdapter.value = "adapterB"
  /\ StaticConfig.value.val[<<"consent">>] = "v1"

\* C2: install on a plugin object whose install has completed throws 'already
\* installed' and changes nothing: adapter, options, config, store, installed
\* modules, pending queue and XPlugin.instance stay as they were.
C2_SecondInstallThrows ==
  [][(lastCall'.op = "install" /\ isInstalled[lastCall'.self]) =>
       (lastCall'.err = "alreadyInstalled" /\ UNCHANGED state)]_vars

C2_Witness ==
  /\ lastCall.op = "install" /\ lastCall.err = "alreadyInstalled"
  /\ lastCall.options.adapter # None
  /\ instance # None /\ instance # lastCall.self

\* C3 as stated: at most one plugin object is installed, and XPlugin.instance is it.
C3_AtMostOneInstalled ==
  /\ Cardinality({p \in Plugins : isInstalled[p]}) <= 1
  /\ \A p \in Plugins : isInstalled[p] => instance = p

\* C3 amended: XPlugin.instance is unset or names one plugin object whose install
\* passed option validation; an install that passes validation makes its plugin
\* the instance, and one that completes marks that plugin installed. Several
\* plugin objects can be installed at once.
C3_InstanceIsLastInstalled ==
  /\ instance # None => adapter[instance] # None
  /\ (lastCall.op = "install" /\ lastCall.err \notin {"alreadyInstalled", "invalidOptions"})
       => instance = lastCall.self
  /\ Installed(lastCall) => isInstalled[lastCall.self]
  /\ \A p \in Plugins : isInstalled[p] => adapter[p] # None

C3_Witness ==
  /\ \A p \in Plugins : isInstalled[p]
  /\ Installed(lastCall) /\ instance = lastCall.self

\* The registration steps one complete registration of m performs, in order.
WireSteps(m) ==
  LET pairs == FlatWiring(m.wiring)
  IN [i \in 1..Len(pairs) |-> Step("wire", m, pairs[i].event, pairs[i].wire.id)]
WatchSteps(m) ==
  [i \in 1..Len(m.storeEmitters) |-> Step("watch", m, m.storeEmitters[i].event, None)]
FullRegistration(m) ==
  <<Step("storeModule", m, None, None)>> \o WireSteps(m) \o WatchSteps(m)
    \o <<Step("installed", m, None, None)>>

ReRegistrationChangesNothing ==
  [][(/\ lastCall'.op = "registerXModule"
      /\ instance # None
      /\ lastCall'.xModule.name \in installedXModules[instance])
       => (lastCall'.err = None /\ UNCHANGED state)]_vars

\* C4 as stated: for every module name the store module is registered at most
\* once, each wire invoked at most once and each emitter watched at most once,
\* and a request for a name in the installed set changes nothing.
C4_RegisteredAtMostOnce ==
  /\ [](\A p \in Plugins, name \in ModuleNames :
          /\ Count(regLog[p], "storeModule", name) <= 1
          /\ \A k \in StepKeys(regLog[p], "wire", name) :
               CountKey(regLog[p], "wire", name, k[1], k[2]) <= 1
          /\ \A k \in StepKeys(regLog[p], "watch", name) :
               CountKey(regLog[p], "watch", name, k[1], k[2]) <= 1)
  /\ ReRegistrationChangesNothing

\* C4 amended: a request for a name in the installed set changes nothing, and a
\* name enters the installed set at most once; the store module is registered,
\* each wire invoked and each emitter watched once by the registration that
\* completes and once more by each registration of that name that threw part-way.
C4_OncePerCompletedRegistration ==
  /\ [](\A p \in Plugins, name \in ModuleNames :
          LET attempts == Count(regLog[p], "installed", name) + Count(regLog[p], "threw", name)
          IN /\ Count(regLog[p], "installed", name) <= 1
             /\ Count(regLog[p], "installed", name) = 1 <=> name \in installedXModules[p]
             /\ Count(regLog[p], "storeModule", name) = attempts
             /\ \A k \in StepKeys(regLog[p], "wire", name) :
                  CountKey(regLog[p], "wire", name, k[1], k[2]) <= attempts
             /\ \A k \in StepKeys(regLog[p], "watch", name) :
                  CountKey(regLog[p], "watch", name, k[1], k[2]) <= attempts)
  /\ ReRegistrationChangesNothing

C4_Witness ==
  /\ lastCall.op = "registerXModule" /\ lastCall.err = None
  /\ instance # None
  /\ \E i \in DOMAIN regLog[instance] :
       /\ regLog[instance][i].step = "installed"
       /\ regLog[instance][i].name = lastCall.xModule.name
       /\ regLog[instance][i].ver # lastCall.xModule.ver
  /\ Count(regLog[instance], "threw", "nextQueries") = 1
  /\ Count(regLog[instance], "storeModule", "nextQueries") = 2

\* The queue after xModule was stored in it under its name.
Queued(before, after, m) ==
  LET known == \E i \in DOMAIN before : before[i].name = m.name
  IN /\ Len(after) = IF known THEN Len(before) ELSE Len(before) + 1
     /\ \A i \in DOMAIN before :
          after[i] = IF before[i].name = m.name THEN m ELSE before[i]
     /\ ~known => after[Len(after)] = m

NothingButQueue ==
  UNCHANGED <<instance, isInstalled, adapter, options, vue, xConfig, store,
              installedXModules, stores, subscribers, adapterListeners, microtasks,
              vueGlobal, storeCalls, emitted, received, regLog, installs, throws>>

DrainedAndRegistered(p) ==
  /\ pendingXModules' = <<>>
  /\ \A i \in DOMAIN pendingXModules :
       LET m == pendingXModules[i] IN
       /\ m.name \in installedXModules'[p]
       /\ Count(regLog'[p], "storeModule", m.name) = 1
       /\ \E j \in DOMAIN regLog'[p] : regLog'[p][j] = Step("installed", m, None, None)

C7_InvalidOptionsChangeNothing ==
  [][(lastCall'.op = "install" /\ lastCall'.options.adapter = None) =>
       /\ lastCall'.err = IF isInstalled[lastCall'.self]
                          THEN "alreadyInstalled" ELSE "invalidOptions"
       /\ UNCHANGED state
       /\ instance = None => StaticAdapter'.threw /\ StaticBus'.threw /\ StaticConfig'.threw]_vars

C7_Witness ==
  /\ lastCall.op = "install" /\ lastCall.err = "invalidOptions"
  /\ instance = None /\ StaticAdapter.threw
  /\ Len(pendingXModules) = 2
  /\ store[lastCall.self] = None /\ xConfig[lastCall.self] = UndefinedConfig

\* C8: setConfig(u) leaves every key path of u holding u's value and every other
\* key path of the config holding its previous value, at any depth, and the
\* config stays the same object (XPlugin.config is identical before and after).
C8_SetConfigMergesInPlace ==
  [][lastCall'.op = "setConfig" =>
       LET p == lastCall'.self
           u == lastCall'.options.config
       IN /\ xConfig'[p].ref = xConfig[p].ref
          /\ StaticConfig'.value.ref = StaticConfig.value.ref
          /\ DOMAIN xConfig'[p].val = DOMAIN xConfig[p].val \cup DOMAIN u
          /\ \A path \in DOMAIN u : xConfig'[p].val[path] = u[path]
          /\ \A path \in DOMAIN xConfig[p].val \ DOMAIN u :
               xConfig'[p].val[path] = xConfig[p].val[path]]_vars

C8_Witness ==
  /\ lastCall.op = "setConfig"
  /\ DOMAIN lastCall.options.config = {<<"currencyOptions", "format", "decimals">>}
  /\ xConfig[xPlugin].val[<<"currencyOptions", "format", "decimals">>] = "v2"
  /\ xConfig[xPlugin].val[<<"currencyOptions", "symbol">>] = "v1"
  /\ xConfig[xPlugin].val[<<"consent">>] = "v0"
  /\ xConfig[xPlugin].ref = 1

\* What a stream emitted after a subscription was made, for its event.
EmittedFor(stream, sub) ==
  SelectSeq(SubSeq(emitted[stream], sub.since + 1, Len(emitted[stream])),
            LAMBDA e : e.event = sub.event)

\* C9: a listener receives exactly one delivery for each emission of its event
\* made after it subscribed, in order, carrying the emitted payload (paired with
\* the emitted metadata when it subscribed with metadata), and nothing for
\* emissions made before it subscribed or for other events.
C9_OneDeliveryPerEmission ==
  \A bus \in Buses, l \in Listeners :
    LET mine == {i \in DOMAIN subscribers[bus] : subscribers[bus][i].listener = l}
    IN /\ (\A b \in Buses : \A i \in DOMAIN subscribers[b] : subscribers[b][i].listener # l)
            => received[l] = <<>>
       /\ \A i \in mine :
            LET sub == subscribers[bus][i]
                es == EmittedFor(bus, sub)
            IN received[l] =
                 [j \in 1..Len(es) |->
                    [wrapped |-> sub.withMetadata,
                     eventPayload |-> es[j].payload,
                     metadata |-> IF sub.withMetadata THEN es[j].metadata ELSE None]]

C9_Witness ==
  LET bus == PluginBus(xPlugin) IN
  /\ Len(emitted[bus]) = 2
  /\ emitted[bus][1].event = "UserAcceptedAQuery"
  /\ emitted[bus][2] = [event |-> "UserAcceptedAQuery", payload |-> "pizza",
                        metadata |-> "searchBox"]
  /\ \E i \in DOMAIN subscribers[bus] :
       /\ subscribers[bus][i].listener = "listener1"
       /\ subscribers[bus][i].event = "UserAcceptedAQuery"
       /\ subscribers[bus][i].withMetadata
       /\ subscribers[bus][i].since = 1
  /\ received["listener1"] = <<WithMetadata("pizza", "searchBox")>>
  /\ Len(received["listener2"]) = 2

\* C10: a wire built by wireCommit(name, static?) or wireDispatch(name, static?)
\* makes one store.commit (store.dispatch) call per value arriving on its stream,
\* in arrival order, with (name, static) when a static payload was given and
\* (name, observed value) otherwise, and no call when nothing arrives.
C10_OneCallPerPayload ==
  \A i \in DOMAIN subscribers[Subject] :
    LET sub == subscribers[Subject][i]
        es == EmittedFor(Subject, sub)
        calls == SelectSeq(storeCalls, LAMBDA c : c.by = i)
    IN sub.wire.kind \in {"commit", "dispatch"} =>
         calls = [j \in 1..Len(es) |->
                    [store |-> sub.store, method |-> sub.wire.kind, name |-> sub.wire.name,
                     hasPayload |-> TRUE,
                     payload |-> [wrapped |-> FALSE,
                                  eventPayload |-> IF sub.wire.static # None
                                                   THEN sub.wire.static ELSE es[j].payload,
                                  metadata |-> None],
                     by |-> i]]

C10_Witness ==
  /\ Len(subscribers[Subject]) = 2
  /\ subscribers[Subject][1].wire = Wire("wire", "commit", <<"setQuery">>, None)
  /\ subscribers[Subject][2].wire = Wire("wire", "dispatch", <<"setQuery">>, "sushi")
  /\ subscribers[Subject][2].since = 1
  /\ Len(emitted[Subject]) = 2
  /\ emitted[Subject][1].payload = "pizza" /\ emitted[Subject][2].payload = "pizza"
  /\ Len(storeCalls) = 3
  /\ storeCalls[3].method = "dispatch" /\ storeCalls[3].payload = RawValue("sushi")
  /\ storeCalls[2].method = "commit" /\ storeCalls[2].payload = RawValue("pizza")

\* C11: each of the four wire factories of withModule(M) commits or dispatches
\* to the name x/M/N, never to the bare N, once per value arriving on its
\* stream, with the payload rule of its kind: the static payload when one was
\* given, the observed value otherwise, and no payload argument for the
\* WithoutPayload factories.
C11_NamespacedWires ==
  \A i \in DOMAIN subscribers[Subject] :
    \A moduleName \in ModuleNames, static \in {None, "sushi"},
       kind \in {"commit", "dispatch", "commitWithoutPayload", "dispatchWithoutPayload"} :
      LET sub == subscribers[Subject][i]
          es == EmittedFor(Subject, sub)
          calls == SelectSeq(storeCalls, LAMBDA c : c.by = i)
          withPayload == kind \in {"commit", "dispatch"}
      IN sub.wire = withModule(moduleName, kind, "setQuery", static) =>
           calls = [j \in 1..Len(es) |->
                      [store |-> sub.store,
                       method |-> IF kind \in {"commit", "commitWithoutPayload"}
                                  THEN "commit" ELSE "dispatch",
                       name |-> <<"x", moduleName, "setQuery">>,
                       hasPayload |-> withPayload,
                       payload |-> [wrapped |-> FALSE,
                                    eventPayload |-> IF ~withPayload THEN None
                                                     ELSE IF static # None THEN static
                                                     ELSE es[j].payload,
                                    metadata |-> None],
                       by |-> i]]

C11_Witness ==
  /\ Len(subscribers[Subject]) = 2
  /\ subscribers[Subject][1].wire = withModule("searchBox", "commit", "setQuery", None)
  /\ subscribers[Subject][2].wire =
       withModule("nextQueries", "dispatchWithoutPayload", "setQuery", None)
  /\ Len(emitted[Subject]) = 1 /\ emitted[Subject][1].payload = "sushi"
  /\ Len(storeCalls) = 2
  /\ storeCalls[1].name = <<"x", "searchBox", "setQuery">>
  /\ storeCalls[1].method = "commit" /\ storeCalls[1].payload = RawValue("sushi")
  /\ storeCalls[2].name = <<"x", "nextQueries", "setQuery">>
  /\ storeCalls[2].method = "dispatch" /\ ~storeCalls[2].hasPayload

Emissions(bus, event) == {i \in DOMAIN emitted[bus] : emitted[bus][i].event = event}
Unattributed(bus, event) == {i \in Emissions(bus, event) : emitted[bus][i].metadata = None}
Deferred(event) == {i \in DOMAIN microtasks : microtasks[i].event = event}
LastEmitted(bus) == emitted'[bus][Len(emitted'[bus])]
EmitsOne(bus) == Len(emitted'[bus]) = Len(emitted[bus]) + 1
\* The watcher whose callback the step runs: the one whose held value changes.
Reported(s, i) ==
  /\ lastCall'.op = "watch"
  /\ i \in DOMAIN stores'[s].watchers
  /\ stores'[s].watchers[i].value # stores[s].watchers[i].value

FlowBus == PluginBus(xPlugin)

\* C12: an emitter registered with immediate: true emits its event once after
\* the registration, with what its selector returns then, whether or not the
\* state ever changes; every other emission of an emitter's event, and every
\* emission of an emitter without immediate, is made for a change of the
\* selected value reported by the watch.
C12_ImmediateEmitsOnce ==
  /\ [](\A m \in FlowModules : \A k \in DOMAIN m.storeEmitters :
          LET e == m.storeEmitters[k]
              watched == CountKey(regLog[xPlugin], "watch", m.name, e.event, None)
          IN IF e.immediate
             THEN Cardinality(Unattributed(FlowBus, e.event)) + Cardinality(Deferred(e.event))
                    = watched
             ELSE Unattributed(FlowBus, e.event) = {} /\ Deferred(e.event) = {})
  /\ [][\A m \in FlowModules : \A k \in DOMAIN m.storeEmitters :
          LET e == m.storeEmitters[k] IN
          Cardinality(Emissions(FlowBus, e.event))' > Cardinality(Emissions(FlowBus, e.event)) =>
            /\ EmitsOne(FlowBus)
            /\ \/ /\ e.immediate /\ lastCall'.op = "immediate"
                   /\ LastEmitted(FlowBus).payload =
                        Leaf(stores[store[xPlugin]].x[m.name], e.selector)
                   /\ LastEmitted(FlowBus).metadata = None
               \/ \E i \in DOMAIN stores[store[xPlugin]].watchers :
                    /\ Reported(store[xPlugin], i)
                    /\ stores[store[xPlugin]].watchers[i].event = e.event
                    /\ LastEmitted(FlowBus).payload = stores'[store[xPlugin]].watchers[i].value
                    /\ LastEmitted(FlowBus).metadata = m.name]_vars
  /\ \A m \in FlowModules : \A k \in DOMAIN m.storeEmitters :
       m.storeEmitters[k].immediate =>
         ((m.name \in installedXModules[xPlugin])
            ~> (Cardinality(Unattributed(FlowBus, m.storeEmitters[k].event)) = 1))

C12_Witness ==
  LET bus == PluginBus(xPlugin) IN
  /\ installedXModules[xPlugin] = {"nextQueries", "facets"}
  /\ microtasks = <<>>
  /\ emitted[bus] = <<[event |-> "NextQueriesChanged", payload |-> "", metadata |-> None]>>
  /\ lastCall.op = "immediate"

\* C13: when the effect of a wire throws for an emission of an event, every
\* other wire subscribed to that event, of the same module or of another, makes
\* its call for that emission, and the error is reported, once per emission.
C13_ThrowingWireIsIsolated ==
  LET bus == PluginBus(xPlugin) IN
  \A i \in DOMAIN subscribers[bus] :
    LET sub == subscribers[bus][i]
        es == EmittedFor(bus, sub)
    IN sub.listener = None =>
         IF sub.wire.kind = "throwing"
         THEN Cardinality({k \in DOMAIN errors : errors[k].by = i}) = Len(es)
         ELSE Len(SelectSeq(storeCalls, LAMBDA c : c.by = i)) = Len(es)

C13_Witness ==
  LET bus == PluginBus(xPlugin) IN
  /\ Len(subscribers[bus]) = 4
  /\ subscribers[bus][1].wire.kind = "throwing"
  /\ subscribers[bus][1].event = "UserAcceptedAQuery"
  /\ subscribers[bus][2].wire.id = "setUrlConfig"
  /\ subscribers[bus][3].wire.id = "setSearchBoxQuery"
  /\ Len(emitted[bus]) = 1 /\ emitted[bus][1].event = "UserAcceptedAQuery"
  /\ errors = <<[event |-> "UserAcceptedAQuery", by |-> 1]>>
  /\ Len(storeCalls) = 2
  /\ storeCalls[1].name = <<"x", "url", "setUrlConfig">>
  /\ storeCalls[2].name = <<"x", "searchBox", "setQuery">>

\* C14: for a wire of a registered module built by wireCommit(m) without a
\* static payload, each bus.emit(E, p, metadata) made after the registration
\* results in one store.commit(m, p) whose payload is the emitted p.
C14_CommitsEmittedPayload ==
  LET bus == PluginBus(xPlugin) IN
  \A i \in DOMAIN subscribers[bus] :
    LET sub == subscribers[bus][i]
        es == EmittedFor(bus, sub)
    IN (sub.listener = None /\ sub.wire.kind = "commit" /\ sub.wire.static = None) =>
         SelectSeq(storeCalls, LAMBDA c : c.by = i) =
           [j \in 1..Len(es) |->
              [store |-> sub.store, method |-> "commit", name |-> sub.wire.name,
               hasPayload |-> TRUE, payload |-> RawValue(es[j].payload), by |-> i]]

\* The (event, wire id) keys of a wiring and the wire under a key.
WiringKeys(wiring) ==
  UNION {{<<wiring[i].event, wiring[i].wires[j].id>> : j \in DOMAIN wiring[i].wires} :
           i \in DOMAIN wiring}
WireAt(wiring, key) ==
  LET i == CHOOSE i \in DOMAIN wiring : wiring[i].event = key[1]
      j == CHOOSE j \in DOMAIN wiring[i].wires : wiring[i].wires[j].id = key[2]
  IN wiring[i].wires[j]
EmitterAt(emitters, event) ==
  emitters[CHOOSE i \in DOMAIN emitters : emitters[i].event = event]
Events(entries) == {entries[i].event : i \in DOMAIN entries}
Conflict(path, object) ==
  \E q \in DOMAIN object : IsPrefix(q, path) \/ IsPrefix(path, q)
Overridden(name) == options[xPlugin].xModules[name]
OverrideModule(name) == CHOOSE m \in OverrideModules : m.name = name
SetConfigPath == <<"mutations", "setConfig">>

\* C15: for a module registered with overrides in options.xModules[name], the
\* wiring, the store module and the store emitters in effect hold at every key
\* path the override's value when the override defines it and the module's
\* default otherwise: for each (event, wire id) one wire is invoked, the
\* override's when it has that key and the default one otherwise; each leaf of
\* the registered store module is the override's or else the default's; each
\* emitter is watched once with each of its keys taken likewise.
C15_OverridesMergedPerKey ==
  \A name \in installedXModules[xPlugin] :
    LET m == OverrideModule(name)
        o == Overridden(name)
        bus == PluginBus(xPlugin)
        registered == stores[store[xPlugin]].x[name]
        watchers == stores[store[xPlugin]].watchers
        Effective(event, key) ==
          IF /\ event \in Events(o.storeEmitters)
             /\ \/ key \in EmitterAt(o.storeEmitters, event).keys
                \/ event \notin Events(m.storeEmitters)
          THEN EmitterAt(o.storeEmitters, event).value[key]
          ELSE EmitterAt(m.storeEmitters, event)[key]
    IN /\ \A key \in WiringKeys(m.wiring) \cup WiringKeys(o.wiring) :
            LET invoked == {i \in DOMAIN subscribers[bus] :
                              /\ subscribers[bus][i].event = key[1]
                              /\ subscribers[bus][i].wire.id = key[2]}
            IN /\ Cardinality(invoked) = 1
               /\ \A i \in invoked :
                    subscribers[bus][i].wire =
                      IF key \in WiringKeys(o.wiring) THEN WireAt(o.wiring, key)
                      ELSE WireAt(m.wiring, key)
       /\ \A path \in DOMAIN o.storeModule :
            path \in DOMAIN registered /\ registered[path] = o.storeModule[path]
       /\ \A path \in DOMAIN m.storeModule :
            ~Conflict(path, o.storeModule) =>
              path \in DOMAIN registered /\ registered[path] = m.storeModule[path]
       /\ DOMAIN registered \subseteq
            DOMAIN o.storeModule \cup DOMAIN m.storeModule \cup {<<"namespaced">>, SetConfigPath}
       /\ \A event \in Events(m.storeEmitters) \cup Events(o.storeEmitters) :
            LET mine == {i \in DOMAIN watchers :
                           watchers[i].name = name /\ watchers[i].event = event}
            IN /\ Cardinality(mine) = 1
               /\ \A i \in mine :
                    /\ watchers[i].selector = Effective(event, "selector")
                    /\ watchers[i].isDifferent = Effective(event, "isDifferent")
                    /\ watchers[i].options.filter = Effective(event, "filter")
               /\ Cardinality(Deferred(event)) = IF Effective(event, "immediate") THEN 1 ELSE 0

C15_Witness ==
  LET bus == PluginBus(xPlugin) IN
  /\ installedXModules[xPlugin] = {"facets", "url"}
  /\ Overridden("facets") = facetsOptions /\ Overridden("url") = urlOptions
  /\ \E i \in DOMAIN subscribers[bus] :
       subscribers[bus][i].wire =
         Wire("setFacetsQuery", "dispatch", <<"x", "facets", "search">>, None)
  /\ \E i \in DOMAIN subscribers[bus] : subscribers[bus][i].wire.id = "clearFacetsQuery"
  /\ \E i \in DOMAIN subscribers[bus] : subscribers[bus][i].wire.id = "trackQuery"
  /\ stores[store[xPlugin]].x["url"][<<"getters", "urlParams">>] = "customUrlParams"
  /\ stores[store[xPlugin]].x["facets"][<<"state", "query">>] = "pizza"
  /\ Cardinality(Deferred("FacetsQueryChanged")) = 1

\* C16: for a module registered with storeModule overrides, the getters its
\* emitters' selectors see through the safe getters proxy are the getters of
\* the overridden store module, those the override adds included.
C16_ProxyOfOverriddenModule ==
  \A name \in installedXModules[xPlugin] :
    Overridden(name).storeModule # EmptyObject =>
      \A i \in DOMAIN stores[store[xPlugin]].watchers :
        LET watcher == stores[store[xPlugin]].watchers[i] IN
        watcher.name = name =>
          watcher.getters =
            {path[2] : path \in {q \in DOMAIN stores[store[xPlugin]].x[name] :
                                   q[1] = "getters"}}

\* C18: a registered store module whose state holds a config has a setConfig
\* mutation: the one the module or the override defines when there is one, the
\* synthesized one otherwise, also for a module without mutations; a module
\* whose state holds no config gets none added.
C18_SetConfigMutation ==
  \A name \in installedXModules[xPlugin] :
    LET m == OverrideModule(name)
        o == Overridden(name)
        registered == stores[store[xPlugin]].x[name]
        hasConfig == \E path \in DOMAIN m.storeModule \cup DOMAIN o.storeModule :
                       IsPrefix(<<"state", "config">>, path)
    IN IF SetConfigPath \in DOMAIN o.storeModule
       THEN SetConfigPath \in DOMAIN registered
              /\ registered[SetConfigPath] = o.storeModule[SetConfigPath]
       ELSE IF SetConfigPath \in DOMAIN m.storeModule
       THEN SetConfigPath \in DOMAIN registered
              /\ registered[SetConfigPath] = m.storeModule[SetConfigPath]
       ELSE IF hasConfig
       THEN SetConfigPath \in DOMAIN registered
              /\ registered[SetConfigPath] = getDefaultSetConfigMutation
       ELSE SetConfigPath \notin DOMAIN registered

C18_Witness ==
  LET x == stores[store[xPlugin]].x IN
  /\ installedXModules[xPlugin] = {"searchBox", "facets", "url", "recommendations"}
  /\ Overridden("facets") = NoXModuleOptions
  /\ x["searchBox"][SetConfigPath] = "setSearchBoxConfig"
  /\ x["url"][SetConfigPath] = "defaultSetConfig"
  /\ x["url"][<<"mutations", "setUrlConfig">>] = "setUrlConfig"
  /\ x["recommendations"][SetConfigPath] = "defaultSetConfig"
  /\ SetConfigPath \notin DOMAIN x["facets"]

\* The change-detection predicate an emitter declares, under either key.
DeclaredPredicate(watcher) ==
  IF watcher.isDifferent # None THEN watcher.isDifferent ELSE watcher.options.filter

\* C17: for every change (newValue, oldValue) the store watch reports to an
\* emitter, one bus.emit(event, newValue, { moduleName }) happens when the
\* predicate the emitter declares holds for (newValue, oldValue), none when it
\* does not, and one on every reported change when no predicate is declared.
C17_EmitsWhenPredicateHolds ==
  [][\A s \in StoreIds : \A i \in DOMAIN stores[s].watchers :
       LET watcher == stores[s].watchers[i]
           newValue == stores'[s].watchers[i].value
       IN Reported(s, i) =>
            emitted'[watcher.bus] =
              IF Holds(DeclaredPredicate(watcher), newValue, watcher.value)
              THEN Append(emitted[watcher.bus],
                          [event |-> watcher.event, payload |-> newValue,
                           metadata |-> watcher.name])
              ELSE emitted[watcher.bus]]_vars

Phase(at, name) == [at |-> at, name |-> name]
\* The steps log[i], log[i+1], ... follow one another as the steps of
\* registrations do: store module, wires, emitters, installed.
RECURSIVE InOrder(_, _, _)
InOrder(log, i, phase) ==
  IF i > Len(log) THEN TRUE
  ELSE LET e == log[i] IN
    CASE e.step = "storeModule" ->
           phase.at = "idle" /\ InOrder(log, i + 1, Phase("wiring", e.name))
      [] e.step = "wire" ->
           phase = Phase("wiring", e.name) /\ InOrder(log, i + 1, phase)
      [] e.step = "threw" ->
           phase = Phase("wiring", e.name) /\ InOrder(log, i + 1, Phase("idle", None))
      [] e.step = "watch" ->
           /\ phase \in {Phase("wiring", e.name), Phase("watching", e.name)}
           /\ InOrder(log, i + 1, Phase("watching", e.name))
      [] e.step = "installed" ->
           /\ phase \in {Phase("wiring", e.name), Phase("watching", e.name)}
           /\ InOrder(log, i + 1, Phase("idle", None))

\* C19: in each registration the store module is registered before any wire of
\* the module is invoked, every wire is invoked before any emitter is watched,
\* and the name enters the installed set after the three steps have completed:
\* the steps that end with the name installed are the whole registration.
C19_RegistrationOrder ==
  \A p \in Plugins :
    /\ InOrder(regLog[p], 1, Phase("idle", None))
    /\ \A name \in installedXModules[p] : Count(regLog[p], "installed", name) >= 1
    /\ \A i \in DOMAIN regLog[p] :
         regLog[p][i].step = "installed" =>
           \E m \in XModules :
             /\ m.name = regLog[p][i].name /\ m.ver = regLog[p][i].ver
             /\ i >= Len(FullRegistration(m))
             /\ SubSeq(regLog[p], i - Len(FullRegistration(m)) + 1, i) = FullRegistration(m)

C19_Witness ==
  /\ lastCall.op = "registerXModule" /\ lastCall.err = None
  /\ lastCall.xModule = searchBoxXModule2
  /\ Count(regLog[xPlugin], "threw", "nextQueries") = 1
  /\ Len(regLog[xPlugin]) = 8
  /\ SubSeq(regLog[xPlugin], 4, 8) = FullRegistration(searchBoxXModule2)
  /\ installedXModules[xPlugin] = {"searchBox"}

ImmediateWatched(log) ==
  {i \in DOMAIN log :
     /\ log[i].step = "watch"
     /\ \E m \in FlowModules : \E k \in DOMAIN m.storeEmitters :
          /\ m.name = log[i].name /\ m.storeEmitters[k].event = log[i].event
          /\ m.storeEmitters[k].immediate}

\* C20: the registering call (install or registerXModule) emits nothing: for
\* each immediate emitter it registers it leaves one deferred callback, and
\* the immediate emission is made when that callback runs, after the call has
\* returned, without metadata; an emission made by a watcher carries the
\* moduleName.
C20_ImmediateIsDeferred ==
  [][/\ lastCall'.op \in {"install", "registerXModule"} =>
          /\ emitted' = emitted /\ received' = received /\ storeCalls' = storeCalls
          /\ Len(microtasks') - Len(microtasks) =
               Cardinality(ImmediateWatched(regLog'[xPlugin]))
                 - Cardinality(ImmediateWatched(regLog[xPlugin]))
     /\ lastCall'.op = "immediate" =>
          /\ microtasks # <<>> /\ microtasks' = Tail(microtasks)
          /\ EmitsOne(Head(microtasks).bus)
          /\ LastEmitted(Head(microtasks).bus).event = Head(microtasks).event
          /\ LastEmitted(Head(microtasks).bus).metadata = None
     /\ \A s \in StoreIds : \A i \in DOMAIN stores[s].watchers :
          (Reported(s, i) /\ emitted' # emitted) =>
            LastEmitted(stores[s].watchers[i].bus).metadata = stores[s].watchers[i].name]_vars

C20_Witness ==
  LET bus == PluginBus(xPlugin) IN
  /\ Len(emitted[bus]) = 3
  /\ emitted[bus][1].event = "UserAcceptedAQuery"
  /\ emitted[bus][2] = [event |-> "SelectedFiltersChanged", payload |-> "pizza",
                        metadata |-> "facets"]
  /\ emitted[bus][3].event = "NextQueriesChanged" /\ emitted[bus][3].metadata = None
  /\ lastCall.op = "immediate"

\* No emission is pending: no deferred callback is waiting and every watcher
\* holds the value its selector returns.
Quiescent == microtasks = <<>> /\ \A s \in StoreIds : Stale(s) = {}
\* A wire is subscribed to an event that a registered store emitter emits.
Feedback ==
  \E s \in StoreIds : \E i \in DOMAIN stores[s].watchers :
    \E k \in DOMAIN subscribers[stores[s].watchers[i].bus] :
      LET sub == subscribers[stores[s].watchers[i].bus][k]
      IN sub.listener = None /\ sub.event = stores[s].watchers[i].event
\* The watcher emits an event wired to a mutation that changes the value the
\* watcher selects on every call.
InLoop(s, i) ==
  LET watcher == stores[s].watchers[i] IN
  \E k \in DOMAIN subscribers[watcher.bus] :
    LET sub == subscribers[watcher.bus][k] IN
    /\ sub.listener = None /\ sub.event = watcher.event
    /\ sub.wire.name = <<"x", watcher.name, "toggle">>
    /\ watcher.selector = <<"state", "isOpen">>

WiresFor(m, event) ==
  LET entries == SelectSeq(m.wiring, LAMBDA entry : entry.event = event)
  IN IF entries = <<>> THEN <<>> ELSE entries[1].wires
\* The wires for an event of the modules whose registrations log[i], log[i+1],
\* ... record, module after module in registration order.
RECURSIVE WiresInOrder(_, _, _)
WiresInOrder(log, i, event) ==
  IF i > Len(log) THEN <<>>
  ELSE IF log[i].step # "storeModule" THEN WiresInOrder(log, i + 1, event)
  ELSE WiresFor(CHOOSE m \in OrderModules : m.name = log[i].name /\ m.ver = log[i].ver,
                event)
       \o WiresInOrder(log, i + 1, event)
WithCalls(wires) == SelectSeq(wires, LAMBDA wire : wire.kind # "throwing")

\* C22: for one emission of an event the wires bound to it make their store
\* calls in the order of their registration: the modules in the order they
\* were registered, and the wires of one module in the order of its wiring
\* for that event.
C22_WiresRunInRegistrationOrder ==
  [][lastCall'.op = "emit" =>
       LET wires == WithCalls(WiresInOrder(regLog[xPlugin], 1, lastCall'.self))
           calls == SubSeq(storeCalls', Len(storeCalls) + 1, Len(storeCalls'))
       IN /\ Len(calls) = Len(wires)
          /\ \A j \in DOMAIN calls :
               /\ calls[j].name = wires[j].name
               /\ calls[j].method = wires[j].kind
               /\ subscribers[PluginBus(xPlugin)][calls[j].by].wire = wires[j]
          /\ \A j, k \in DOMAIN calls : j < k => calls[j].by < calls[k].by]_vars

C22_Witness ==
  /\ lastCall.op = "emit" /\ lastCall.self = "UserAcceptedAQuery"
  /\ Len(emitted[PluginBus(xPlugin)]) = 1
  /\ installedXModules[xPlugin] = {"url", "searchBox"}
  /\ regLog[xPlugin][1] = Step("storeModule", urlXModule, None, None)
  /\ Len(storeCalls) = 3
  /\ storeCalls[1].name = <<"x", "url", "setUrlConfig">>
  /\ storeCalls[2].name = <<"x", "searchBox", "setQuery">>
  /\ storeCalls[3].name = <<"x", "searchBox", "search">>
  /\ Len(errors) = 1

\* The install call passed option validation.
Validated(call) ==
  call.op = "install" /\ call.err \notin {"alreadyInstalled", "invalidOptions"}
AdapterConfigChangedEvent(newAdapterConfig) ==
  [event |-> "AdapterConfigChanged", payload |-> newAdapterConfig, metadata |-> None]
\* The listeners an adapter holds that emit on a bus.
ListenersOn(a, bus) == SelectSeq(adapterListeners[a], LAMBDA l : l = bus)
\* An install call registers one listener on an adapter with the hook, none on
\* an adapter without it, and fails for no reason of the adapter's; nothing
\* else registers or removes a listener.
InstallRegistersOneListener ==
  [][IF Validated(lastCall')
     THEN LET a == lastCall'.options.adapter IN
          /\ adapterListeners' =
               IF a \in AdaptersWithHook
               THEN [adapterListeners EXCEPT ![a] = Append(@, PluginBus(lastCall'.self))]
               ELSE adapterListeners
          /\ lastCall'.err \in {None, "wireThrew"}
          /\ lastCall'.err = "wireThrew" =>
               \E i \in DOMAIN pendingXModules : \E j \in DOMAIN pendingXModules[i].wiring :
                 \E k \in DOMAIN pendingXModules[i].wiring[j].wires :
                   pendingXModules[i].wiring[j].wires[k].kind = "notCallable"
     ELSE adapterListeners' = adapterListeners]_vars

\* C23 as stated: install registers exactly one listener on an adapter that
\* exposes addConfigChangedListener, and every later change of the adapter's
\* config results in exactly one emission of AdapterConfigChanged with the new
\* config on the plugin's bus; without the hook install registers nothing and
\* succeeds.
C23_OneEmissionPerChange ==
  /\ InstallRegistersOneListener
  /\ [][lastCall'.op = "adapterConfigChanged" =>
          \A bus \in Buses :
            emitted'[bus] =
              IF ListenersOn(lastCall'.options.adapter, bus) # <<>>
              THEN Append(emitted[bus], AdapterConfigChangedEvent(lastCall'.self))
              ELSE emitted[bus]]_vars

\* C23 amended: every install call that passes option validation registers
\* one more listener on an adapter that exposes addConfigChangedListener, also
\* when it throws later or repeats an install that threw, and every later
\* change of the adapter's config results in one emission of
\* AdapterConfigChanged with the new config on the plugin's bus for each
\* listener registered: exactly one when one install call has passed
\* validation with that adapter; without the hook install registers nothing
\* and succeeds.
C23_OneEmissionPerListener ==
  /\ InstallRegistersOneListener
  /\ [][lastCall'.op = "adapterConfigChanged" =>
          \A bus \in Buses :
            LET n == Len(ListenersOn(lastCall'.options.adapter, bus))
            IN emitted'[bus] =
                 emitted[bus] \o [j \in 1..n |-> AdapterConfigChangedEvent(lastCall'.self)]]_vars

C23_Witness ==
  /\ lastCall.op = "adapterConfigChanged" /\ lastCall.self = "adapterConfig2"
  /\ lastCall.options.adapter = "adapterB"
  /\ isInstalled[xPlugin] /\ adapter[xPlugin] = "adapterB"
  /\ adapterListeners["adapterB"] = <<PluginBus(xPlugin)>>
  /\ emitted[PluginBus(xPlugin)] = <<AdapterConfigChangedEvent("adapterConfig1"),
                                     AdapterConfigChangedEvent("adapterConfig2")>>

\* The wiring of the module holds an entry that cannot be invoked.
Malformed(m) ==
  \E j \in DOMAIN m.wiring : \E k \in DOMAIN m.wiring[j].wires :
    m.wiring[j].wires[k].kind = "notCallable"
\* The queued modules whose registration by plugin p throws.
Failing(p) ==
  {i \in DOMAIN pendingXModules :
     Malformed(pendingXModules[i]) /\ pendingXModules[i].name \notin installedXModules[p]}

\* C24: when install throws after option validation, from the registration of
\* a queued module, nothing is rolled back: the error leaves install,
\* XPlugin.instance stays set to the plugin, isInstalled stays false, the
\* queue holds every module it held, the modules registered before the
\* failure are in the installed set, and adapter, options, config and store
\* stay as install set them.
C24_FailedInstallRollsNothingBack ==
  [][(lastCall'.op = "install" /\ lastCall'.err \notin {None, "alreadyInstalled",
                                                       "invalidOptions"}) =>
       LET p == lastCall'.self
           first == CHOOSE i \in Failing(p) : \A j \in Failing(p) : i <= j
       IN /\ lastCall'.err = "wireThrew" /\ Failing(p) # {}
          /\ instance' = p
          /\ ~isInstalled[p] /\ ~isInstalled'[p]
          /\ pendingXModules' = pendingXModules
          /\ installedXModules'[p] =
               installedXModules[p] \cup {pendingXModules[i].name : i \in 1..(first - 1)}
          /\ adapter'[p] = lastCall'.options.adapter /\ options'[p] = lastCall'.options
          /\ store'[p] # None /\ xConfig'[p] # UndefinedConfig
          /\ installs' = installs + 1
          /\ Len(regLog'[p]) > Len(regLog[p])
          /\ SubSeq(regLog'[p], 1, Len(regLog[p])) = regLog[p]]_vars

C24_Witness ==
  /\ lastCall.op = "install" /\ lastCall.err = "wireThrew"
  /\ instance = xPlugin /\ ~isInstalled[xPlugin]
  /\ Len(pendingXModules) = 2
  /\ pendingXModules[1].name = "searchBox" /\ pendingXModules[2] = nextQueriesXModule2
  /\ installedXModules[xPlugin] = {"searchBox"}
  /\ StaticAdapter.value = "adapterB"

\* The store modules registered on a store under ['x', name].
RegisteredOn(sts, s, name) ==
  Cardinality({i \in DOMAIN sts[s].modules : sts[s].modules[i].name = name})
\* The steps of a registration of m that throws at the first entry of its
\* wiring that cannot be invoked.
RECURSIVE UntilThrow(_, _)
UntilThrow(m, pairs) ==
  IF pairs = <<>> THEN <<>>
  ELSE IF Head(pairs).wire.kind = "notCallable"
  THEN <<Step("threw", m, Head(pairs).event, Head(pairs).wire.id)>>
  ELSE <<Step("wire", m, Head(pairs).event, Head(pairs).wire.id)>>
       \o UntilThrow(m, Tail(pairs))

\* C25: a module name is in the installed set only if a registration of that
\* name has run its store-module, wiring and store-emitter steps to the end; a
\* registration that throws part-way leaves the name out of the set, and a
\* later registration request for that name runs the whole procedure again,
\* store.registerModule included, for a module the store has already.
C25_InstalledOnlyWhenComplete ==
  /\ [](\A p \in Plugins : \A name \in installedXModules[p] :
          \E m \in XModules : \E i \in DOMAIN regLog[p] :
            /\ m.name = name /\ i >= Len(FullRegistration(m))
            /\ SubSeq(regLog[p], i - Len(FullRegistration(m)) + 1, i) = FullRegistration(m))
  /\ [][(lastCall'.op = "registerXModule" /\ instance # None
           /\ lastCall'.xModule.name \notin installedXModules[instance]) =>
          LET p == instance
              m == lastCall'.xModule
              s == store[p]
          IN IF lastCall'.err # None
             THEN /\ Malformed(m)
                  /\ m.name \notin installedXModules'[p]
                  /\ regLog'[p] = regLog[p] \o <<Step("storeModule", m, None, None)>>
                                     \o UntilThrow(m, FlatWiring(m.wiring))
                  /\ RegisteredOn(stores', s, m.name) = RegisteredOn(stores, s, m.name) + 1
             ELSE /\ m.name \in installedXModules'[p]
                  /\ regLog'[p] = regLog[p] \o FullRegistration(m)
                  /\ RegisteredOn(stores', s, m.name) = RegisteredOn(stores, s, m.name) + 1]_vars

C25_Witness ==
  /\ lastCall.op = "registerXModule" /\ lastCall.err = None
  /\ lastCall.xModule = nextQueriesXModule
  /\ isInstalled[xPlugin] /\ instance = xPlugin
  /\ installedXModules[xPlugin] = {"nextQueries"}
  /\ regLog[xPlugin] = <<Step("storeModule", nextQueriesXModule2, None, None),
                         Step("wire", nextQueriesXModule2, "UserAcceptedAQuery",
                              "setNextQueriesQuery"),
                         Step("threw", nextQueriesXModule2, "UserAcceptedAQuery", "broken")>>
                        \o FullRegistration(nextQueriesXModule)
  /\ RegisteredOn(stores, store[xPlugin], "nextQueries") = 2

WatcherOf(task) ==
  CHOOSE i \in DOMAIN stores[task.store].watchers :
    /\ stores[task.store].watchers[i].name = task.name
    /\ stores[task.store].watchers[i].event = task.event
\* The bus has an emission of the event with the payload and the metadata.
Carried(event, payload, metadata) ==
  \E i \in Emissions(FlowBus, event) :
    emitted[FlowBus][i].payload = payload /\ emitted[FlowBus][i].metadata = metadata
SelectedValues == {"", "object", "pizza", "sushi", None}
\* The values an emitter can select other than the one it selects on the
\* state its module brings.
ChangedValues(m, e) == SelectedValues \ {Leaf(m.storeModule, e.selector)}
\* The immediate emission of the emitter carried a changed value; the event
\* was emitted with one changed value by the deferred callback and by the watch.
ImmediateCarriedChange(m, e) ==
  \E v \in ChangedValues(m, e) : Carried(e.event, v, None)
CarriedTwice(m, e) ==
  \E v \in ChangedValues(m, e) : Carried(e.event, v, None) /\ Carried(e.event, v, m.name)

\* C27: the immediate emission of a store emitter carries what the selector
\* returns when the deferred callback runs, not what it returned at the
\* registration: when a mutation has changed the selected state in between,
\* the callback emits the changed value and leaves the change to be reported
\* by the watch, which emits that value as well, so that the event is emitted
\* twice with it.
C27_ImmediateReadsStateWhenRun ==
  /\ [][(lastCall'.op = "immediate" /\ emitted' # emitted) =>
          LET task == Head(microtasks)
              watcher == stores[task.store].watchers[WatcherOf(task)]
              current == Selected(stores[task.store].x[task.name], task.getters,
                                  task.selector)
          IN /\ microtasks' = Tail(microtasks)
             /\ LastEmitted(task.bus) =
                  [event |-> task.event, payload |-> current, metadata |-> None]
             /\ WatcherOf(task) \in Stale(task.store) =>
                  /\ current # watcher.value
                  /\ Selected(stores'[task.store].x[task.name], task.getters,
                              task.selector) = current
                  /\ stores'[task.store].watchers[WatcherOf(task)].value = watcher.value]_vars
  /\ \A m \in FlowModules : \A k \in DOMAIN m.storeEmitters :
       m.storeEmitters[k].immediate =>
         (ImmediateCarriedChange(m, m.storeEmitters[k]) ~> CarriedTwice(m, m.storeEmitters[k]))

C27_Witness ==
  /\ lastCall.op = "watch"
  /\ Len(regLog[xPlugin]) >= 1
  /\ emitted[FlowBus] =
       <<[event |-> "UserAcceptedAQuery", payload |-> "sushi", metadata |-> "searchBox"],
         [event |-> "NextQueriesChanged", payload |-> "object", metadata |-> None],
         [event |-> "NextQueriesChanged", payload |-> "object", metadata |-> "nextQueries"]>>
  /\ installedXModules[xPlugin] = {"nextQueries"}
  /\ microtasks = <<>>

====
